---- MODULE Spec2Model ----
(***************************************************************************)
(* Model of the cinematic intro of house-of-letters: the LoadingScene      *)
(* class (asset pipeline, camera transition, frame loop, skip, dispose).   *)
(*                                                                         *)
(* Time is performance.now() in milliseconds.  cameraTransition.progress   *)
(* is kept as a numerator over Duration (progress = 1 iff it equals        *)
(* Duration), so that elapsed / duration needs no fractions.               *)
(*                                                                         *)
(* Abstractions: window size, camera aspect and renderer size (written     *)
(* only by onWindowResize) and the GPU resources released by dispose are   *)
(* read by nothing here and are left out; scene and camera keep only       *)
(* whether the reference is null and which asset meshes were added.        *)
(*                                                                         *)
(* The pure functions of the class are checked in specifications of their  *)
(* own (EaseSpec, ...), which leave the scene as constructed and call the  *)
(* function on inputs drawn from bounded sets.  Fractions are exact        *)
(* rationals in lowest terms; IEEE rounding is not modelled.               *)
(***************************************************************************)
EXTENDS Integers, FiniteSets, Sequences, TLC

\* ------------------------------------------------------------- constants

\* this.totalAssets = 6
totalAssets == 6

\* cameraTransition.duration, in ms
Duration == 18000

\* the primary asset and the five dependent assets of loadDependentAssets
Primary == "building"

Dependents == {"roof", "terrain", "whiteBuilding", "corridor", "groupcell"}

Assets == {Primary} \cup Dependents

\* dependents whose mesh is added by the load callback itself
PlainDependents == Dependents \ {"terrain"}

\* ---------------------------------------------------------------- bounds

\* the clock advances in steps of ClockStep ms, at most MaxClockSteps times
ClockStep == 6000

MaxClockSteps == 4

\* how many times the application calls start()
MaxStarts == 2

\* variableSpeedEase is called on the multiples of 1 / EaseGrid in [0, 1]
EaseGrid == 20

\* damp is called on values between -DampRange and DampRange
DampRange == 10

\* how close, in units of 1 / PosUnit, repeated damping comes to its target
DampEpsilon == 20

\* how many times the clock of the camera flight advances
MaxMotionSteps == 5

\* how close to the last waypoint, in units of 1 / PosUnit, the camera is
\* required to end
MotionEpsilon == 1000

\* the faces arrays decoded hold at most MaxFaces records, the last of them
\* cut short by at most MaxCut entries
MaxFaces == 3

MaxCut == 2

\* calls of updateVisualEffects followed
MaxEffectCalls == 3

\* ----------------------------------------------------------------- state

VARIABLES
    now,              \* performance.now()
    inflight,         \* FileLoader requests issued and not yet settled
    requests,         \* history: how many times each asset was requested
    primaryOutcome,   \* history: how the building request settled
    texture,          \* the terrain texture request: "none", "pending", "done"
    scene,            \* this.scene: [isNull, meshes, origin]
    camera,           \* this.camera: "live" or "null"
    buildingCenter,   \* this.buildingCenter: "zero" or "bboxCenter"
    loadedAssets,     \* this.loadedAssets
    cameraTransition, \* this.cameraTransition: [active, progress, startTime]
    cameraSpline,     \* this.cameraSpline: "null" or "curve"
    splineBuilds,     \* history: invocations of startCameraTransition
    lastTime,         \* this.lastTime
    onComplete,       \* this.onComplete: "null" or "callback"
    isActive,         \* this.isActive
    isDisposed,       \* this.isDisposed
    animationId,      \* this.animationId: "null", "pending" (names a pending
                      \* frame), "stale" (names a frame that ran or was cancelled)
    pendingFrames,    \* requestAnimationFrame callbacks not yet run
    startCalls,       \* history: calls of start()
    completions,      \* history: invocations of the onComplete callback
    completedBy,      \* history: "none", "tick" or "skip"
    uncaught,         \* history: a TypeError escaped a callback or a frame
    lastOp,           \* history: the operation of the last step and what it did
    easing,           \* variableSpeedEase called in isolation: [t, value]
    damping,          \* damp called in isolation: [from, current, target]
    motion,           \* the camera flight followed in isolation
    decoder,          \* LegacyJSONLoader.parse run in isolation
    effects,          \* updateVisualEffects called in isolation
    letters,          \* loadLetters called in isolation
    proximity,        \* a ProximityManager updated in isolation
    audio             \* an AudioEngine driven in isolation

\* the variables of the LoadingScene object
sceneVars == <<now, inflight, requests, primaryOutcome, texture, scene, camera, buildingCenter,
          loadedAssets, cameraTransition, cameraSpline, splineBuilds,
          lastTime, onComplete, isActive, isDisposed, animationId,
          pendingFrames, startCalls, completions, completedBy, uncaught,
          lastOp>>

\* the variables of the calls made in isolation
harnessVars == <<easing, damping, motion, decoder, effects, letters,
                 proximity, audio>>

vars == <<sceneVars, harnessVars>>

loadVars == <<inflight, requests, primaryOutcome, texture, buildingCenter>>

transitionVars == <<cameraTransition, cameraSpline, splineBuilds>>

frameVars == <<isActive, animationId, pendingFrames>>

\* what a step did: its operation, for animate() whether it scheduled a
\* frame, ran the camera tick and rendered, and, when it invoked onComplete,
\* the cameraTransition.progress the callback found (-1 when it did not)
Op(name) ==
    [name |-> name, scheduled |-> FALSE, ticked |-> FALSE, rendered |-> FALSE,
     seen |-> 0 - 1]

AnimateOp(name, s, t, r) ==
    [name |-> name, scheduled |-> s, ticked |-> t, rendered |-> r,
     seen |-> 0 - 1]

\* the step op with onComplete invoked (fires) while cameraTransition.progress
\* is progress: the tick calls it before it writes the progress, and
\* skipTransition() after
Invoked(op, fires, progress) ==
    [op EXCEPT !.seen = IF fires THEN progress ELSE @]

\* no call in isolation is in progress
EasingIdle == [t |-> <<>>, value |-> <<>>]

DampingIdle == [from |-> 0, current |-> 0, target |-> 0, idle |-> TRUE]

MotionIdle == [idle |-> TRUE]

DecoderIdle == [idle |-> TRUE]

EffectsIdle == [idle |-> TRUE]

LettersIdle == [idle |-> TRUE]

ProximityIdle == [idle |-> TRUE]

AudioIdle == [idle |-> TRUE]

HarnessIdle ==
    /\ easing = EasingIdle
    /\ damping = DampingIdle
    /\ motion = MotionIdle
    /\ decoder = DecoderIdle
    /\ effects = EffectsIdle
    /\ letters = LettersIdle
    /\ proximity = ProximityIdle
    /\ audio = AudioIdle

\* constructor + init(): fields as constructed, the building request issued
Constructed ==
    /\ now = 0
    /\ inflight = {Primary}
    /\ requests = [a \in Assets |-> IF a = Primary THEN 1 ELSE 0]
    /\ primaryOutcome = "none"
    /\ texture = "none"
    /\ scene = [isNull |-> FALSE, meshes |-> {},
                origin |-> [a \in Assets |-> "none"]]
    /\ camera = "live"
    /\ buildingCenter = "zero"
    /\ loadedAssets = 0
    /\ cameraTransition = [active |-> FALSE, progress |-> 0, startTime |-> 0]
    /\ cameraSpline = "null"
    /\ splineBuilds = 0
    /\ lastTime = 0
    /\ onComplete = "null"
    /\ isActive = FALSE
    /\ isDisposed = FALSE
    /\ animationId = "null"
    /\ pendingFrames = 0
    /\ startCalls = 0
    /\ completions = 0
    /\ completedBy = "none"
    /\ uncaught = FALSE
    /\ lastOp = Op("init")

Init == Constructed /\ HarnessIdle

\* --------------------------------------------------------- asset pipeline

\* fault: the transition is started one settlement early
AllAssetsLoaded_OffByOne(n, active) == n >= totalAssets - 1 /\ ~active

\* the condition of assetLoaded() under which the transition is started
AllAssetsLoaded(n, active) == n >= totalAssets /\ ~active

\* startCameraTransition(): builds the spline, activates, resets progress
startCameraTransition ==
    /\ cameraSpline' = "curve"
    /\ cameraTransition' = [active |-> TRUE, progress |-> 0, startTime |-> now]
    /\ splineBuilds' = splineBuilds + 1

\* assetLoaded(): count the settlement, start the transition at the last one
assetLoaded ==
    /\ loadedAssets' = loadedAssets + 1
    /\ IF AllAssetsLoaded(loadedAssets + 1, cameraTransition.active)
          THEN startCameraTransition
          ELSE UNCHANGED transitionVars

\* fault: the mesh is added without the offset
SceneAdd_NoOffset(a, c) ==
    [scene EXCEPT !.meshes = @ \cup {a}, !.origin[a] = "zero"]

\* mesh.position.sub(this.buildingCenter); this.scene.add(mesh) for an asset,
\* with this.buildingCenter = c: origin records the centre the mesh was offset
\* by; a null scene makes the add throw
SceneAdd(a, c) ==
    [scene EXCEPT !.meshes = @ \cup {a}, !.origin[a] = c]

\* loadDependentAssets(): five loader.load requests
loadDependentAssets ==
    /\ inflight' = (inflight \ {Primary}) \cup Dependents
    /\ requests' = [a \in Assets |->
                       IF a \in Dependents THEN requests[a] + 1 ELSE requests[a]]

\* the text a request delivers: a model the decoder accepts, JSON that lacks
\* vertices or faces, or text that JSON.parse rejects
Payloads == {"model", "invalid", "malformed"}

\* fault: the decoder throws on a payload that lacks vertices or faces
ParseReturns_ThrowsOnInvalid(payload) == payload = "model"

\* JSON.parse(text) and this.jsonLoader.parse(json) return: for the payload
\* that lacks vertices or faces the decoder warns and returns an empty geometry
ParseReturns(payload) == payload # "malformed"

\* the operation lastOp records for an onLoad of the payload
LoadOp(payload) == Op(IF payload = "invalid" THEN "loadInvalid" ELSE "load")

\* building onLoad: parse, write buildingCenter, add the mesh offset by it,
\* count, request the dependents.
\* When JSON.parse or the decoder throws, or with a null scene the scene.add
\* throws after buildingCenter was written, the catch does the last two.
buildingOnLoad(payload) ==
    /\ Primary \in inflight
    /\ primaryOutcome' = IF ParseReturns(payload) THEN "success" ELSE "parseError"
    /\ buildingCenter' = IF ParseReturns(payload) THEN "bboxCenter" ELSE buildingCenter
    /\ scene' = IF ParseReturns(payload) /\ ~scene.isNull
                   THEN SceneAdd(Primary, "bboxCenter") ELSE scene
    /\ assetLoaded
    /\ loadDependentAssets
    /\ lastOp' = LoadOp(payload)
    /\ UNCHANGED <<now, harnessVars, texture, camera, lastTime, onComplete, frameVars,
                   isDisposed, startCalls, completions, completedBy, uncaught>>

\* fault: the error path counts the building but never requests the dependents
buildingOnError_NoDependents ==
    /\ Primary \in inflight
    /\ primaryOutcome' = "fetchError"
    /\ assetLoaded
    /\ inflight' = inflight \ {Primary}
    /\ lastOp' = Op("load")
    /\ UNCHANGED <<now, harnessVars, requests, texture, scene, camera, buildingCenter,
                   lastTime, onComplete, frameVars, isDisposed, startCalls,
                   completions, completedBy, uncaught>>

\* building onError
buildingOnError ==
    /\ Primary \in inflight
    /\ primaryOutcome' = "fetchError"
    /\ assetLoaded
    /\ loadDependentAssets
    /\ lastOp' = Op("load")
    /\ UNCHANGED <<now, harnessVars, texture, scene, camera, buildingCenter, lastTime,
                   onComplete, frameVars, isDisposed, startCalls, completions,
                   completedBy, uncaught>>

\* fault: assetLoaded() sits inside the try, so a throwing callback is not counted
dependentOnLoad_CountInTry(a, payload) ==
    /\ a \in PlainDependents
    /\ a \in inflight
    /\ inflight' = inflight \ {a}
    /\ scene' = IF ParseReturns(payload) /\ ~scene.isNull
                   THEN SceneAdd(a, buildingCenter) ELSE scene
    /\ IF ParseReturns(payload) /\ ~scene.isNull
          THEN assetLoaded
          ELSE UNCHANGED <<loadedAssets, transitionVars>>
    /\ lastOp' = LoadOp(payload)
    /\ UNCHANGED <<now, harnessVars, requests, primaryOutcome, texture, camera,
                   buildingCenter, lastTime, onComplete, frameVars, isDisposed,
                   startCalls, completions, completedBy, uncaught>>

\* roof, whiteBuilding, corridor, groupcell onLoad: add the mesh inside the
\* try, count after it
dependentOnLoad(a, payload) ==
    /\ a \in PlainDependents
    /\ a \in inflight
    /\ inflight' = inflight \ {a}
    /\ scene' = IF ParseReturns(payload) /\ ~scene.isNull
                   THEN SceneAdd(a, buildingCenter) ELSE scene
    /\ assetLoaded
    /\ lastOp' = LoadOp(payload)
    /\ UNCHANGED <<now, harnessVars, requests, primaryOutcome, texture, camera, buildingCenter, lastTime,
                   onComplete, frameVars, isDisposed, startCalls, completions,
                   completedBy, uncaught>>

\* terrain onLoad: request the texture inside the try, count after it
terrainOnLoad(payload) ==
    /\ "terrain" \in inflight
    /\ inflight' = inflight \ {"terrain"}
    /\ texture' = IF ParseReturns(payload) THEN "pending" ELSE texture
    /\ assetLoaded
    /\ lastOp' = LoadOp(payload)
    /\ UNCHANGED <<now, harnessVars, requests, primaryOutcome, scene, camera, buildingCenter, lastTime,
                   onComplete, frameVars, isDisposed, startCalls, completions,
                   completedBy, uncaught>>

\* fault: a failed fetch is not counted as a settlement
dependentOnError_Uncounted(a) ==
    /\ a \in Dependents
    /\ a \in inflight
    /\ inflight' = inflight \ {a}
    /\ lastOp' = Op("load")
    /\ UNCHANGED <<now, harnessVars, requests, primaryOutcome, texture, scene, camera,
                   buildingCenter, loadedAssets, transitionVars, lastTime,
                   onComplete, frameVars, isDisposed, startCalls, completions,
                   completedBy, uncaught>>

\* onError of a dependent load: () => this.assetLoaded()
dependentOnError(a) ==
    /\ a \in Dependents
    /\ a \in inflight
    /\ inflight' = inflight \ {a}
    /\ assetLoaded
    /\ lastOp' = Op("load")
    /\ UNCHANGED <<now, harnessVars, requests, primaryOutcome, texture, scene, camera, buildingCenter,
                   lastTime, onComplete, frameVars, isDisposed, startCalls,
                   completions, completedBy, uncaught>>

\* terrain texture onLoad and onError: both add the terrain mesh, outside any
\* try; with a null scene the TypeError is uncaught
textureSettled ==
    /\ texture = "pending"
    /\ texture' = "done"
    /\ scene' = IF scene.isNull THEN scene ELSE SceneAdd("terrain", buildingCenter)
    /\ uncaught' = (uncaught \/ scene.isNull)
    /\ lastOp' = Op("texture")
    /\ UNCHANGED <<now, harnessVars, inflight, requests, primaryOutcome, camera, buildingCenter,
                   loadedAssets,
                   transitionVars, lastTime, onComplete, frameVars, isDisposed,
                   startCalls, completions, completedBy>>

\* ------------------------------------------------------------ frame loop

\* dispose() sets scene, camera, renderer and composer to null
NullScene == [isNull |-> TRUE, meshes |-> {},
              origin |-> [a \in Assets |-> "none"]]

\* cancelAnimationFrame(this.animationId), guarded by if (this.animationId)
FramesAfterCancel(aid, pend) == IF aid = "pending" THEN pend - 1 ELSE pend

IdAfterCancel(aid) == IF aid = "null" THEN "null" ELSE "stale"

\* fault: animate() does not look at isDisposed
AnimateReturns_IgnoresDisposed(act, disposed) == ~act

\* the early return of animate()
AnimateReturns(act, disposed) == ~act \/ disposed

\* the early return of updateCameraTransition()
TickReturns(active, spline) == ~active \/ spline = "null"

\* rawProgress >= 1, with rawProgress = (now - startTime) / duration
ReachesEnd(t, startTime) == t - startTime >= Duration

\* fault: rawProgress is not clamped at 1
RawProgress_Unclamped(t, startTime) == t - startTime

\* rawProgress as a numerator over Duration, clamped at 1
RawProgress(t, startTime) ==
    IF ReachesEnd(t, startTime) THEN Duration ELSE t - startTime

\* fault: the completing tick leaves the transition active
ActiveAfterTick_Stays(ends) == TRUE

\* cameraTransition.active after a tick: cleared when rawProgress reaches 1
ActiveAfterTick(ends) == ~ends

\* fault: skipTransition() without its guard
SkipApplies_Always(active) == TRUE

\* the guard of skipTransition()
SkipApplies(active) == active

\* fault: skipTransition() does not deactivate the transition
SkippedTransition_StaysActive(ct) == [ct EXCEPT !.progress = Duration]

\* what skipTransition() writes when the guard holds
SkippedTransition(ct) == [ct EXCEPT !.active = FALSE, !.progress = Duration]

\* the body of dispose(), called with animationId = aid and pend frames
\* pending: stop the loop, cancel the frame animationId names, release and null
\* the scene, camera, renderer and composer
disposeBody(aid, pend) ==
    /\ isActive' = FALSE
    /\ isDisposed' = TRUE
    /\ animationId' = IdAfterCancel(aid)
    /\ pendingFrames' = FramesAfterCancel(aid, pend)
    /\ scene' = NullScene
    /\ camera' = "null"

\* the completing tick invokes the callback: a tick that runs, reaches
\* rawProgress >= 1 and finds onComplete = cb set
TickFires(cb) ==
    /\ ~TickReturns(cameraTransition.active, cameraSpline)
    /\ ReachesEnd(now, cameraTransition.startTime)
    /\ cb # "null"

\* updateCameraTransition() with onComplete = cb.  The callback is application
\* code and may call dispose() (cbDisposes); the rest of the tick then
\* dereferences the null camera and throws before progress is written.
updateCameraTransition(cb, cbDisposes) ==
    LET ct == cameraTransition
        ends == ReachesEnd(now, ct.startTime)
        throws == (TickFires(cb) /\ cbDisposes) \/ camera = "null"
    IN  IF TickReturns(ct.active, cameraSpline)
        THEN UNCHANGED <<cameraTransition, lastTime, completions, completedBy>>
        ELSE /\ lastTime' = now
             /\ cameraTransition' =
                    [ct EXCEPT !.active = ActiveAfterTick(ends),
                               !.progress = IF throws THEN @
                                            ELSE RawProgress(now, ct.startTime)]
             /\ completions' = IF TickFires(cb) THEN completions + 1 ELSE completions
             /\ completedBy' = IF ends THEN "tick" ELSE completedBy

\* animate(), entered with isActive = act, onComplete = cb, pend frames still
\* pending and animationId = aid: schedule the next frame, run
\* updateCameraTransition(), render (an exception in the tick skips the render)
animate(name, act, cb, pend, aid) ==
    IF AnimateReturns(act, isDisposed)
    THEN /\ isActive' = act
         /\ animationId' = aid
         /\ pendingFrames' = pend
         /\ lastOp' = AnimateOp(name, FALSE, FALSE, FALSE)
         /\ UNCHANGED <<transitionVars, lastTime, scene, camera, isDisposed,
                        completions, completedBy, uncaught>>
    ELSE \E cbDisposes \in BOOLEAN :
         LET runs == ~TickReturns(cameraTransition.active, cameraSpline)
             disposes == TickFires(cb) /\ cbDisposes
             throws == disposes \/ camera = "null"
         IN  /\ cbDisposes => TickFires(cb)
             /\ updateCameraTransition(cb, cbDisposes)
             /\ IF disposes
                   THEN disposeBody("pending", pend + 1)
                   ELSE /\ isActive' = act
                        /\ animationId' = "pending"
                        /\ pendingFrames' = pend + 1
                        /\ UNCHANGED <<scene, camera, isDisposed>>
             /\ uncaught' = (uncaught \/ throws)
             /\ lastOp' = Invoked(AnimateOp(name, TRUE, runs, ~throws),
                                  TickFires(cb), cameraTransition.progress)
             /\ UNCHANGED <<cameraSpline, splineBuilds>>

\* fault: start() itself activates the camera transition
start_Activates ==
    /\ startCalls < MaxStarts
    /\ startCalls' = startCalls + 1
    /\ onComplete' = "callback"
    /\ isActive' = TRUE
    /\ cameraTransition' = [cameraTransition EXCEPT !.active = TRUE]
    /\ lastOp' = AnimateOp("start", FALSE, FALSE, FALSE)
    /\ UNCHANGED <<now, harnessVars, loadVars, scene, camera, loadedAssets, cameraSpline,
                   splineBuilds, lastTime, isDisposed, animationId,
                   pendingFrames, completions, completedBy, uncaught>>

\* start(onComplete): register the callback, mark active, run animate()
start ==
    /\ startCalls < MaxStarts
    /\ startCalls' = startCalls + 1
    /\ onComplete' = "callback"
    /\ animate("start", TRUE, "callback", pendingFrames, animationId)
    /\ UNCHANGED <<now, harnessVars, loadVars, loadedAssets>>

\* a requestAnimationFrame callback runs animate(); callbacks run in request
\* order, so it is the one animationId names only when no other is pending
frame ==
    /\ pendingFrames > 0
    /\ animate("animate", isActive, onComplete, pendingFrames - 1,
               IF animationId = "pending" /\ pendingFrames = 1
                  THEN "stale" ELSE animationId)
    /\ UNCHANGED <<now, harnessVars, loadVars, loadedAssets, onComplete, startCalls>>

\* skipTransition(); the callback may call dispose()
skipTransition ==
    \E cbDisposes \in BOOLEAN :
    LET ct == cameraTransition
        applies == SkipApplies(ct.active)
        fires == applies /\ onComplete # "null"
    IN  /\ cbDisposes => fires
        /\ cameraTransition' = IF applies THEN SkippedTransition(ct) ELSE ct
        /\ completions' = IF fires THEN completions + 1 ELSE completions
        /\ completedBy' = IF applies THEN "skip" ELSE completedBy
        /\ IF cbDisposes
              THEN disposeBody(animationId, pendingFrames)
              ELSE UNCHANGED <<frameVars, isDisposed, scene, camera>>
        /\ lastOp' = Invoked(Op("skipTransition"), fires,
                             SkippedTransition(ct).progress)
        /\ UNCHANGED <<now, harnessVars, loadVars, loadedAssets, cameraSpline, splineBuilds,
                       lastTime, onComplete, startCalls, uncaught>>

\* the application calls dispose()
dispose ==
    /\ disposeBody(animationId, pendingFrames)
    /\ lastOp' = Op("dispose")
    /\ UNCHANGED <<now, harnessVars, loadVars, loadedAssets, transitionVars, lastTime,
                   onComplete, startCalls, completions, completedBy, uncaught>>

\* the window resize listener, installed by init() and removed by dispose();
\* it returns early without a camera, and writes only sizes left out here
onWindowResize ==
    /\ ~isDisposed
    /\ lastOp' = Op("onWindowResize")
    /\ UNCHANGED <<now, harnessVars, loadVars, scene, camera, loadedAssets, transitionVars,
                   lastTime, onComplete, frameVars, isDisposed, startCalls,
                   completions, completedBy, uncaught>>

\* performance.now() advances
clock ==
    /\ now + ClockStep <= MaxClockSteps * ClockStep
    /\ now' = now + ClockStep
    /\ UNCHANGED <<harnessVars, loadVars, scene, camera, loadedAssets, transitionVars,
                   lastTime, onComplete, frameVars, isDisposed, startCalls,
                   completions, completedBy, uncaught, lastOp>>

\* ---------------------------------------------------------- specification

\* a FileLoader request settles: onLoad with some payload, or onError
loadSettles ==
    \/ \E payload \in Payloads : buildingOnLoad(payload)
    \/ buildingOnError
    \/ \E a \in PlainDependents, payload \in Payloads : dependentOnLoad(a, payload)
    \/ \E payload \in Payloads : terrainOnLoad(payload)
    \/ \E a \in Dependents : dependentOnError(a)

Next ==
    \/ loadSettles
    \/ textureSettled
    \/ start
    \/ frame
    \/ skipTransition
    \/ dispose
    \/ onWindowResize
    \/ clock

Spec == Init /\ [][Next]_vars

\* every request issued to the loaders eventually settles
FairSpec == Spec /\ WF_vars(loadSettles)

\* requests settle, the browser keeps running the frame callbacks it was
\* asked for, and time passes
FrameFairSpec ==
    Spec /\ WF_vars(loadSettles) /\ WF_vars(frame) /\ WF_vars(clock)

\* ------------------------------------------------------ exact fractions

RECURSIVE GCD(_, _)
\* greatest common divisor of two naturals
GCD(a, b) == IF b = 0 THEN a ELSE GCD(b, a % b)

Abs(x) == IF x < 0 THEN -x ELSE x

\* the number n / d (d # 0), in lowest terms with a positive denominator
Rat(n, d) ==
    LET g == GCD(Abs(n), Abs(d))
        s == IF d < 0 THEN -1 ELSE 1
    IN  [num |-> s * (n \div g), den |-> s * (d \div g)]

RAdd(x, y) == Rat(x.num * y.den + y.num * x.den, x.den * y.den)

RSub(x, y) == Rat(x.num * y.den - y.num * x.den, x.den * y.den)

RMul(x, y) == Rat(x.num * y.num, x.den * y.den)

RDiv(x, y) == Rat(x.num * y.den, x.den * y.num)

RLess(x, y) == x.num * y.den < y.num * x.den

RLeq(x, y) == x.num * y.den <= y.num * x.den

\* ------------------------------------------------------------- easing

easeInQuad(t) == RMul(t, t)

easeOutQuad(t) == RMul(t, RSub(Rat(2, 1), t))

\* fault: the middle segment rises by 0.8 instead of 0.7
variableSpeedEase_SteepMiddle(t) ==
    IF RLess(t, Rat(2, 10))
    THEN RMul(easeInQuad(RDiv(t, Rat(2, 10))), Rat(15, 100))
    ELSE IF RLess(t, Rat(8, 10))
    THEN LET middleT == RDiv(RSub(t, Rat(2, 10)), Rat(6, 10))
         IN  RAdd(Rat(15, 100), RMul(middleT, Rat(8, 10)))
    ELSE LET endT == RDiv(RSub(t, Rat(8, 10)), Rat(2, 10))
         IN  RAdd(Rat(85, 100), RMul(easeOutQuad(endT), Rat(15, 100)))

\* variableSpeedEase(t): ease in below 0.2, linear below 0.8, ease out above
variableSpeedEase(t) ==
    IF RLess(t, Rat(2, 10))
    THEN RMul(easeInQuad(RDiv(t, Rat(2, 10))), Rat(15, 100))
    ELSE IF RLess(t, Rat(8, 10))
    THEN LET middleT == RDiv(RSub(t, Rat(2, 10)), Rat(6, 10))
         IN  RAdd(Rat(15, 100), RMul(middleT, Rat(7, 10)))
    ELSE LET endT == RDiv(RSub(t, Rat(8, 10)), Rat(2, 10))
         IN  RAdd(Rat(85, 100), RMul(easeOutQuad(endT), Rat(15, 100)))

\* the progress values the easing is called on: a grid over [0, 1] and the
\* two breakpoints
EaseInputs ==
    {Rat(n, EaseGrid) : n \in 0..EaseGrid} \cup {Rat(2, 10), Rat(8, 10)}

\* two progress values, the smaller first
EaseInit ==
    /\ Constructed
    /\ letters = LettersIdle
    /\ proximity = ProximityIdle
    /\ audio = AudioIdle
    /\ \E t \in EaseInputs, u \in EaseInputs :
          /\ RLeq(t, u)
          /\ easing = [t |-> <<t, u>>, value |-> <<>>]
    /\ damping = DampingIdle
    /\ motion = MotionIdle
    /\ decoder = DecoderIdle
    /\ effects = EffectsIdle

\* this.variableSpeedEase(rawProgress) on each of the two values
easeCall ==
    /\ easing.t # <<>>
    /\ easing.value = <<>>
    /\ easing' = [easing EXCEPT !.value = <<variableSpeedEase(easing.t[1]),
                                           variableSpeedEase(easing.t[2])>>]
    /\ UNCHANGED <<sceneVars, damping, motion, decoder, effects,
                 letters, proximity, audio>>

EaseNext == easeCall

EaseSpec == EaseInit /\ [][EaseNext]_vars

\* ------------------------------------------------------------ damping

\* Numbers with a fractional part that are fed back into later calls are
\* kept in fixed point, rounded to nearest after each multiplication:
\* factors and seconds to 1 / Unit, coordinates to 1 / PosUnit.
Unit == 10000

PosUnit == 1000

\* a / b rounded to the nearest integer (b > 0)
RoundDiv(a, b) == (2 * a + b) \div (2 * b)

\* the product of two numbers in units of 1 / Unit
FMul(a, b) == RoundDiv(a * b, Unit)

RECURSIVE ExpSeries(_, _, _)
\* term - x term / n + x^2 term / (n (n + 1)) - ... , summed until the terms
\* vanish
ExpSeries(x, n, term) ==
    IF term = 0 THEN 0
    ELSE term - ExpSeries(x, n + 1, RoundDiv(term * x, n * Unit))

\* Math.exp(v) for v <= 0: the series of e^-x at x = -v
Exp(v) == ExpSeries(-v, 1, Unit)

\* lerp(a, b, t), t in units of 1 / Unit
lerp(a, b, t) == a + RoundDiv((b - a) * t, Unit)

\* fault: the linear factor smoothing * dt in place of 1 - e^(-smoothing dt)
damp_NoExp(current, target, smoothing, dt) ==
    lerp(current, target, FMul(smoothing, dt))

\* damp(current, target, smoothing, dt)
damp(current, target, smoothing, dt) ==
    lerp(current, target, Unit - Exp(-FMul(smoothing, dt)))

\* a duration of ms milliseconds, in seconds
Seconds(ms) == RoundDiv(ms * Unit, 1000)

\* the values damping starts from and aims at
DampValues == {-DampRange * PosUnit, 0, DampRange * PosUnit}

\* the frame times damp is called with, in ms: none, a 60 Hz frame, the
\* 50 ms cap of updateCameraTransition, one second
DampDts == {0, 16, 50, 1000}

\* the smoothing factors: none, and the 2.5 of updateCameraTransition
DampSmoothings == {0, 25 * (Unit \div 10)}

DampInit ==
    /\ Constructed
    /\ letters = LettersIdle
    /\ proximity = ProximityIdle
    /\ audio = AudioIdle
    /\ easing = EasingIdle
    /\ \E c \in DampValues, t \in DampValues :
          damping = [from |-> c, current |-> c, target |-> t]
    /\ motion = MotionIdle
    /\ decoder = DecoderIdle
    /\ effects = EffectsIdle

\* current = this.damp(current, target, smoothing, dt), dt given in ms
dampCall(smoothing, dt) ==
    /\ damping # DampingIdle
    /\ damping' = [damping EXCEPT
                      !.current = damp(@, damping.target, smoothing, Seconds(dt))]
    /\ UNCHANGED <<sceneVars, easing, motion, decoder, effects,
                 letters, proximity, audio>>

\* a call over which time passes
dampAdvance ==
    \E smoothing \in DampSmoothings \ {0}, dt \in DampDts \ {0} :
        dampCall(smoothing, dt)

DampNext == \E smoothing \in DampSmoothings, dt \in DampDts : dampCall(smoothing, dt)

DampSpec == DampInit /\ [][DampNext]_vars

\* the cumulative dt grows without bound
DampFairSpec == DampSpec /\ WF_vars(dampAdvance)

\* ------------------------------------------------------- camera motion

\* The flight of the camera, followed in its x coordinate (in units of
\* 1 / PosUnit) from the construction of the scene on.  The pipeline is
\* reduced to the moment its last load settles.  Of the spline only the end
\* points are kept: getPointAt(0) is the first and getPointAt(1) the last
\* waypoint, and in between x is taken linear in the arc length.  The
\* completion callback is taken not to dispose the scene.

\* x of the first and of the last of the cameraWaypoints
cameraWaypoints == <<-100930, -41990>>

\* how far performance.now() moves between two looks at it, in ms: a frame,
\* or a stall of the page
MotionSteps == {20, 6500}

\* the values Math.random() is taken to return, in units of 1 / Unit
RandomDraws == {0, Unit \div 2, Unit - 1}

\* a fraction in units of 1 / Unit, to within 2 / Unit (exact at 0 and 1)
ToFixed(x) ==
    LET s == x.den \div Unit + 1
    IN  RoundDiv((x.num \div s) * Unit, x.den \div s)

\* a number in units of 1 / Unit as a coordinate in units of 1 / PosUnit
ToPos(x) == RoundDiv(x * PosUnit, Unit)

\* Math.min on fractions
RMin(x, y) == IF RLess(y, x) THEN y ELSE x

\* this.cameraSpline.getPointAt(u).x
getPointAt(u) == lerp(cameraWaypoints[1], cameraWaypoints[2], ToFixed(u))

\* Math.min((currentTime - this.lastTime) / 1000, 0.05)
DeltaTime(t, last) ==
    IF Seconds(t - last) < Seconds(50) THEN Seconds(t - last) ELSE Seconds(50)

\* fault: the shake does not depend on the progress
Shake_Unscaled(raw, r) == ToPos(r - Unit \div 2)

\* the camera shake of a tick at rawProgress raw with Math.random() = r:
\* (r - 0.5) * (raw - 0.7) * 0.5 beyond 0.7, none up to it
Shake(raw, r) ==
    IF RLess(Rat(7, 10), raw)
    THEN ToPos(FMul(r - Unit \div 2,
                    FMul(ToFixed(raw) - 7 * (Unit \div 10), Unit \div 2)))
    ELSE 0

\* fault: the transition starts without placing the damped position
ActivatedMotion_KeepsPosition(m) ==
    [m EXCEPT !.activated = TRUE, !.active = TRUE, !.progress = 0,
              !.startTime = m.now, !.ticked = FALSE]

\* startCameraTransition(): activate, and put the damped position on the
\* first waypoint
ActivatedMotion(m) ==
    [m EXCEPT !.activated = TRUE, !.active = TRUE, !.progress = 0,
              !.startTime = m.now, !.ticked = FALSE,
              !.currentPosition = cameraWaypoints[1]]

\* updateCameraTransition() past its early return, with r the two values of
\* Math.random(); camera.position is the copy of the damped position plus
\* the shake, in x, and in y half as much; z is the copy
TickedMotion(m, r) ==
    LET deltaTime == DeltaTime(m.now, m.lastTime)
        ends == ReachesEnd(m.now, m.startTime)
        rawProgress == Rat(RawProgress(m.now, m.startTime), Duration)
        speedCurve == variableSpeedEase(rawProgress)
        targetPosition == getPointAt(RMin(speedCurve, Rat(1, 1)))
        position == damp(m.currentPosition, targetPosition,
                         25 * (Unit \div 10), deltaTime)
        shake == Shake(rawProgress, r[1])
    IN  [m EXCEPT !.lastTime = m.now,
                  !.active = ActiveAfterTick(ends),
                  !.completions = IF ends THEN @ + 1 ELSE @,
                  !.target = targetPosition,
                  !.currentPosition = position,
                  !.cameraPosition = position + shake,
                  !.shake = shake,
                  !.shakeY = RoundDiv(Shake(rawProgress, r[2]), 2),
                  !.shakeZ = 0,
                  !.speedCurve = ToFixed(speedCurve),
                  !.effectsProgress = ToFixed(rawProgress),
                  !.progress = RawProgress(m.now, m.startTime),
                  !.ticked = TRUE]

\* animate(): nothing unless started; the tick, unless it returns early
AnimatedMotion(m, r) ==
    IF AnimateReturns(m.started, FALSE)
       \/ TickReturns(m.active, IF m.activated THEN "curve" ELSE "null")
    THEN m
    ELSE TickedMotion(m, r)

MotionInit ==
    /\ Constructed
    /\ letters = LettersIdle
    /\ proximity = ProximityIdle
    /\ audio = AudioIdle
    /\ easing = EasingIdle
    /\ damping = DampingIdle
    /\ motion = [now |-> 0, lastTime |-> 0, steps |-> 0, started |-> FALSE,
                 activated |-> FALSE, active |-> FALSE, progress |-> 0,
                 startTime |-> 0, currentPosition |-> 0,
                 cameraPosition |-> cameraWaypoints[1], target |-> 0,
                 shake |-> 0, shakeY |-> 0, shakeZ |-> 0, speedCurve |-> 0,
                 effectsProgress |-> 0, completions |-> 0, ticked |-> FALSE]
    /\ decoder = DecoderIdle
    /\ effects = EffectsIdle

\* the sixth load settles: assetLoaded() calls startCameraTransition()
motionActivate ==
    /\ motion # MotionIdle
    /\ ~motion.activated
    /\ motion' = ActivatedMotion(motion)
    /\ UNCHANGED <<sceneVars, easing, damping, decoder, effects,
                 letters, proximity, audio>>

\* start(onComplete): isActive = true, then animate()
motionStart ==
    /\ motion # MotionIdle
    /\ ~motion.started
    /\ \E r \in RandomDraws \X RandomDraws :
          motion' = AnimatedMotion([motion EXCEPT !.started = TRUE], r)
    /\ UNCHANGED <<sceneVars, easing, damping, decoder, effects,
                 letters, proximity, audio>>

\* a requestAnimationFrame callback runs animate()
motionFrame ==
    /\ motion # MotionIdle
    /\ motion.started
    /\ \E r \in RandomDraws \X RandomDraws :
          motion' = AnimatedMotion(motion, r)
    /\ UNCHANGED <<sceneVars, easing, damping, decoder, effects,
                 letters, proximity, audio>>

\* performance.now() advances
motionClock ==
    /\ motion # MotionIdle
    /\ motion.steps < MaxMotionSteps
    /\ \E step \in MotionSteps :
          motion' = [motion EXCEPT !.now = @ + step, !.steps = @ + 1]
    /\ UNCHANGED <<sceneVars, easing, damping, decoder, effects,
                 letters, proximity, audio>>

MotionNext ==
    \/ motionActivate
    \/ motionStart
    \/ motionFrame
    \/ motionClock

MotionSpec == MotionInit /\ [][MotionNext]_vars

\* -------------------------------------------------------------- decoder

\* LegacyJSONLoader.parse on one payload.  positions holds one entry per
\* emitted vertex (the vertex index read from the record), each standing for
\* the three coordinates pushed; uvArray and normalArray hold one pair and one
\* triple per emitted vertex.  Undefined is below every number the payloads
\* hold except the negative indices, which are chosen below it.

\* what reading past the end of an array gives
Undefined == 0 - 1

\* (type & b) !== 0, b a power of two
Bit(type, b) == (type \div b) % 2 = 1

\* faces[i], i counted from 0
FaceAt(faces, i) == IF i < Len(faces) THEN faces[i + 1] ELSE Undefined

\* k zeros
Zeros(k) == [j \in 1..k |-> 0]

\* arr[k], k counted from 0
ArrayAt(arr, k) == IF k >= 0 /\ k < Len(arr) THEN arr[k + 1] ELSE Undefined

\* json.uvs and json.normals with the given number of entries, every number
\* in them different from the others and from the defaults
UvPool(entries) == [k \in 1..(2 * entries) |-> 10 + k]

NormalPool(entries) == [k \in 1..(3 * entries) |-> 30 + k]

\* the sizes of the pools: absent, shorter than a quad needs, enough for a quad
PoolEntries == {0, 2, 4}

\* the uv and normal index of corner 0 of a record: in the pool, or negative
IndexBases == {0, 0 - 5}

\* one face record of the format: the type byte, 3 or 4 vertex indices, and
\* the fields its flags announce; corner v has uv and normal index base + v
FaceRecord(type, materialIndex, base) ==
    LET n == IF Bit(type, 1) THEN 4 ELSE 3
    IN  <<type>> \o [v \in 1..n |-> v - 1]
          \o (IF Bit(type, 2) THEN <<materialIndex>> ELSE <<>>)
          \o (IF Bit(type, 8) THEN [v \in 1..n |-> base + v - 1] ELSE <<>>)
          \o (IF Bit(type, 16) THEN <<0>> ELSE <<>>)
          \o (IF Bit(type, 32) THEN [v \in 1..n |-> base + v - 1] ELSE <<>>)
          \o (IF Bit(type, 64) THEN <<0>> ELSE <<>>)
          \o (IF Bit(type, 128) THEN Zeros(n) ELSE <<>>)

\* the type bytes of the records: triangle and quad, bare, with a material,
\* with uvs and vertex normals, with every field
FaceTypes == {0, 1, 2, 3, 40, 251}

MaterialIndices == {0, 1}

RECURSIVE FaceArrays(_, _)
\* the arrays of at most k records, each with the quad flags of its records,
\* the offsets at which its records end and the length of its last record
FaceArrays(k, base) ==
    IF k = 0 THEN {[faces |-> <<>>, quads |-> <<>>, ends |-> <<>>, last |-> 1]}
    ELSE LET shorter == FaceArrays(k - 1, base)
         IN  shorter \cup
             {[faces |-> a.faces \o FaceRecord(type, m, base),
               quads |-> Append(a.quads, Bit(type, 1)),
               ends |-> Append(a.ends, Len(a.faces \o FaceRecord(type, m, base))),
               last |-> Len(FaceRecord(type, m, base))] :
                 a \in {b \in shorter : Len(b.quads) = k - 1},
                 type \in FaceTypes, m \in MaterialIndices}

\* opacity 1, in tenths
Opaque == 10

\* the values of json.materials: absent, empty, one or two descriptors; the
\* first descriptor has a diffuse colour and opacity 0.5, the second neither
MaterialPayloads ==
    LET glass == [colorDiffuse |-> TRUE, opacity |-> 5]
        plain == [colorDiffuse |-> FALSE, opacity |-> Undefined]
    IN  {[present |-> FALSE, list |-> <<>>],
         [present |-> TRUE, list |-> <<>>],
         [present |-> TRUE, list |-> <<glass>>],
         [present |-> TRUE, list |-> <<glass, plain>>]}

\* the payloads the decoder rejects: vertices absent (with faces present or
\* not) or faces absent
InvalidPayloads ==
    {[hasVertices |-> FALSE, hasFaces |-> TRUE, faces |-> FaceRecord(0, 0, 0)],
     [hasVertices |-> FALSE, hasFaces |-> FALSE, faces |-> <<>>],
     [hasVertices |-> TRUE, hasFaces |-> FALSE, faces |-> <<>>]}

\* the locals of parse() before the loop, for a payload with the given faces
DecoderLocals(faces, quads, ends, entries, hasVertices, hasFaces) ==
    [hasVertices |-> hasVertices, hasFaces |-> hasFaces,
     faces |-> faces, uvs |-> UvPool(entries), normals |-> NormalPool(entries),
     quads |-> quads, ends |-> ends, i |-> 0, positions |-> <<>>,
     uvArray |-> <<>>, normalArray |-> <<>>,
     groups |-> <<>>, currentMaterialIndex |-> 0,
     currentGroupStart |-> 0, currentGroupCount |-> 0,
     triangles |-> 0, warned |-> FALSE, descriptors |-> 0,
     materials |-> <<>>, done |-> FALSE]

\* a faces array of whole records, or one whose last record is cut short
\* after its type byte; or a payload without vertices or faces
DecoderInit ==
    /\ Constructed
    /\ letters = LettersIdle
    /\ proximity = ProximityIdle
    /\ audio = AudioIdle
    /\ easing = EasingIdle
    /\ damping = DampingIdle
    /\ motion = MotionIdle
    /\ effects = EffectsIdle
    /\ \/ \E base \in IndexBases, entries \in PoolEntries :
          \E a \in FaceArrays(MaxFaces, base), cut \in 0..MaxCut :
             /\ cut < a.last
             /\ decoder = DecoderLocals(
                              SubSeq(a.faces, 1, Len(a.faces) - cut),
                              a.quads, a.ends, entries, TRUE, TRUE)
       \/ \E j \in InvalidPayloads :
             decoder = DecoderLocals(j.faces, <<>>, <<>>, 0,
                                     j.hasVertices, j.hasFaces)

\* fault: a quad gives its first triangle only
FaceTriangles_NoFan(isQuad) == <<<<0, 1, 2>>>>

\* fault: the quad is split along its other diagonal
FaceTriangles_OtherDiagonal(isQuad) ==
    IF isQuad THEN <<<<0, 1, 2>>, <<1, 2, 3>>>> ELSE <<<<0, 1, 2>>>>

\* the addTriangle calls of one record
FaceTriangles(isQuad) ==
    IF isQuad THEN <<<<0, 1, 2>>, <<0, 2, 3>>>> ELSE <<<<0, 1, 2>>>>

\* the entry pushed to faceUvs for the index read from the record: the test
\* is false for an index read past the end of faces (NaN), true for any
\* negative one
FaceUv(uvs, uvIndex) ==
    IF uvIndex # Undefined /\ Len(uvs) > uvIndex * 2 + 1
    THEN <<ArrayAt(uvs, uvIndex * 2), ArrayAt(uvs, uvIndex * 2 + 1)>>
    ELSE <<0, 0>>

\* the entry pushed to faceNormals for the index read from the record
FaceNormal(normals, normalIndex) ==
    IF normalIndex # Undefined /\ Len(normals) > normalIndex * 3 + 2
    THEN <<ArrayAt(normals, normalIndex * 3),
           ArrayAt(normals, normalIndex * 3 + 1),
           ArrayAt(normals, normalIndex * 3 + 2)>>
    ELSE <<0, 1, 0>>

\* what the addTriangle calls push from a per-corner array: its entries at
\* the corners a, b, c of each triangle
Pushed(triangles, perCorner) ==
    [j \in 1..(3 * Len(triangles)) |->
        perCorner[triangles[((j - 1) \div 3) + 1][((j - 1) % 3) + 1] + 1]]

\* groups.push({start, count, materialIndex}) under if (count > 0)
PushedGroup(groups, groupStart, groupCount, materialIndex) ==
    IF groupCount > 0
    THEN Append(groups, [start |-> groupStart, count |-> groupCount,
                         materialIndex |-> materialIndex])
    ELSE groups

\* fault: the group still open when the scan ends is dropped
FinalGroups_NoFlush(d) == d.groups

\* the groups after the scan: the open one is pushed
FinalGroups(d) ==
    PushedGroup(d.groups, d.currentGroupStart, d.currentGroupCount,
                d.currentMaterialIndex)

\* positions.length
PositionsLength(d) == 3 * Len(d.positions)

\* fault: the face normal index is announced but not read
FieldsRead_FaceNormalUnread(type) ==
    LET numVertices == IF Bit(type, 1) THEN 4 ELSE 3
    IN  1 + numVertices
          + (IF Bit(type, 2) THEN 1 ELSE 0)
          + (IF Bit(type, 8) THEN numVertices ELSE 0)
          + (IF Bit(type, 32) THEN numVertices ELSE 0)
          + (IF Bit(type, 64) THEN 1 ELSE 0)
          + (IF Bit(type, 128) THEN numVertices ELSE 0)

\* fault: the vertex indices are read without moving the cursor
FieldsRead_VerticesUnread(type) ==
    LET numVertices == IF Bit(type, 1) THEN 4 ELSE 3
    IN  1 + (IF Bit(type, 2) THEN 1 ELSE 0)
          + (IF Bit(type, 8) THEN numVertices ELSE 0)
          + (IF Bit(type, 16) THEN 1 ELSE 0)
          + (IF Bit(type, 32) THEN numVertices ELSE 0)
          + (IF Bit(type, 64) THEN 1 ELSE 0)
          + (IF Bit(type, 128) THEN numVertices ELSE 0)

\* the i++ of one pass of the loop, for a record whose type byte is type
FieldsRead(type) ==
    LET numVertices == IF Bit(type, 1) THEN 4 ELSE 3
    IN  1 + numVertices
          + (IF Bit(type, 2) THEN 1 ELSE 0)
          + (IF Bit(type, 8) THEN numVertices ELSE 0)
          + (IF Bit(type, 16) THEN 1 ELSE 0)
          + (IF Bit(type, 32) THEN numVertices ELSE 0)
          + (IF Bit(type, 64) THEN 1 ELSE 0)
          + (IF Bit(type, 128) THEN numVertices ELSE 0)

\* the material made for one descriptor
MaterialFrom(mat) ==
    LET faded == mat.opacity # Undefined /\ mat.opacity < Opaque
    IN  [color |-> IF mat.colorDiffuse THEN "colorDiffuse" ELSE "white",
         transparent |-> faded,
         opacity |-> IF faded THEN mat.opacity ELSE Opaque]

\* fault: a payload without descriptors gets no material
Materials_NoDefault(json) ==
    [k \in 1..Len(json.list) |-> MaterialFrom(json.list[k])]

\* the materials returned for json.materials: one per descriptor, or the one
\* default material when there is none
Materials(json) ==
    IF json.present /\ Len(json.list) > 0
    THEN [k \in 1..Len(json.list) |-> MaterialFrom(json.list[k])]
    ELSE <<[color |-> "0x888888", transparent |-> FALSE, opacity |-> Opaque]>>

\* if (!json.vertices || !json.faces)
Invalid(d) == ~d.hasVertices \/ ~d.hasFaces

\* the early return: warn, give back the empty geometry and no materials
parseInvalid ==
    /\ decoder # DecoderIdle
    /\ ~decoder.done
    /\ Invalid(decoder)
    /\ decoder' = [decoder EXCEPT !.warned = TRUE, !.materials = <<>>,
                                  !.done = TRUE]
    /\ UNCHANGED <<sceneVars, easing, damping, motion, effects,
                 letters, proximity, audio>>

\* one pass of the while loop: decode the record at the cursor
parseFace ==
    /\ decoder # DecoderIdle
    /\ ~decoder.done
    /\ ~Invalid(decoder)
    /\ decoder.i < Len(decoder.faces)
    /\ LET d == decoder
           type == FaceAt(d.faces, d.i)
           isQuad == Bit(type, 1)
           hasMaterial == Bit(type, 2)
           numVertices == IF isQuad THEN 4 ELSE 3
           vertexIndices == [v \in 1..numVertices |-> FaceAt(d.faces, d.i + v)]
           materialIndex ==
               IF hasMaterial THEN FaceAt(d.faces, d.i + 1 + numVertices) ELSE 0
           consumed == FieldsRead(type)
           uvAt == d.i + 1 + numVertices + (IF hasMaterial THEN 1 ELSE 0)
           faceUvs ==
               IF Bit(type, 8)
               THEN [v \in 1..numVertices |->
                        FaceUv(d.uvs, FaceAt(d.faces, uvAt + v - 1))]
               ELSE <<>>
           normalAt == uvAt + Len(faceUvs) + (IF Bit(type, 16) THEN 1 ELSE 0)
           faceNormals ==
               IF Bit(type, 32)
               THEN [v \in 1..numVertices |->
                        FaceNormal(d.normals, FaceAt(d.faces, normalAt + v - 1))]
               ELSE <<>>
           switched == materialIndex # d.currentMaterialIndex
           triangles == FaceTriangles(isQuad)
           emitted == Pushed(triangles, vertexIndices)
       IN  decoder' =
             [d EXCEPT
                !.i = @ + consumed,
                !.groups = IF switched
                           THEN PushedGroup(@, d.currentGroupStart,
                                            d.currentGroupCount,
                                            d.currentMaterialIndex)
                           ELSE @,
                !.currentMaterialIndex = materialIndex,
                !.currentGroupStart =
                    IF switched THEN PositionsLength(d) \div 3 ELSE @,
                !.currentGroupCount =
                    (IF switched THEN 0 ELSE @) + 3 * Len(triangles),
                !.positions = @ \o emitted,
                !.normalArray =
                    IF Len(faceNormals) > 0
                    THEN @ \o Pushed(triangles, faceNormals) ELSE @,
                !.uvArray =
                    IF Len(faceUvs) > 0
                    THEN @ \o Pushed(triangles, faceUvs) ELSE @,
                !.triangles = @ + Len(triangles)]
    /\ UNCHANGED <<sceneVars, easing, damping, motion, effects,
                 letters, proximity, audio>>

\* the scan is over: push the open group, set the attributes and groups,
\* read json.materials (json) and make the materials
parseFinish(json) ==
    /\ decoder # DecoderIdle
    /\ ~decoder.done
    /\ ~Invalid(decoder)
    /\ decoder.i >= Len(decoder.faces)
    /\ decoder' = [decoder EXCEPT !.groups = FinalGroups(decoder),
                                  !.descriptors = Len(json.list),
                                  !.materials = Materials(json),
                                  !.done = TRUE]
    /\ UNCHANGED <<sceneVars, easing, damping, motion, effects,
                 letters, proximity, audio>>

DecoderNext ==
    \/ parseInvalid
    \/ parseFace
    \/ \E json \in MaterialPayloads : parseFinish(json)

DecoderSpec == DecoderInit /\ [][DecoderNext]_vars

\* ------------------------------------------------------- visual effects

\* updateVisualEffects(progress, deltaTime) on a scene as set up, with one of
\* the four point lights (i = 1) and the spotlight.  Times are in seconds and
\* progress, angles and intensities in units of 1 / Unit; the other outputs are
\* kept exact in the unit their formula needs.  The dust positions accumulate
\* like the light's height and the dust rotation and are left out.

\* Math.sin of an angle >= 0: the angle is brought into [-pi/2, pi/2] and
\* the series x - x^3/3! + x^5/5! - x^7/7! + x^9/9! is summed
Sin(x) ==
    LET y == x % 62832
        z == IF y > 47124 THEN y - 62832
             ELSE IF y > 15708 THEN 31416 - y ELSE y
        z2 == FMul(z, z)
        t4 == Unit - RoundDiv(z2, 72)
        t3 == Unit - FMul(RoundDiv(z2, 42), t4)
        t2 == Unit - FMul(RoundDiv(z2, 20), t3)
        t1 == Unit - FMul(RoundDiv(z2, 6), t2)
    IN  FMul(z, t1)

\* fault: the offset is scaled by the progress
Aberration_ScaledByProgress(progress, time) ==
    FMul(progress, 50000 + 3 * Sin(2 * time))

\* aberrationIntensity, in units of 10^-8
Aberration(progress, time) == 50000 + 3 * Sin(2 * time)

\* fault: the spotlight gets the floor of the point lights
LightIntensity_SpotlightFloor(lightData, progress, time) ==
    LET pulse == RoundDiv(Sin(FMul(time, lightData.speed) + lightData.phase)
                              + Unit, 2)
    IN  FMul(FMul(lightData.baseIntensity, pulse),
             3 * (Unit \div 10) + FMul(progress, 7 * (Unit \div 10)))

\* light.intensity of one entry of dynamicLights
LightIntensity(lightData, progress, time) ==
    LET pulse == RoundDiv(Sin(FMul(time, lightData.speed) + lightData.phase)
                              + Unit, 2)
    IN  IF lightData.isSpotlight
        THEN FMul(FMul(lightData.baseIntensity, progress), pulse)
        ELSE FMul(FMul(lightData.baseIntensity, pulse),
                  3 * (Unit \div 10) + FMul(progress, 7 * (Unit \div 10)))

\* fault: the bloom is raised from its last value instead of being set
VisualEffects_Accumulates(e, progress, time) ==
    [bloom |-> e.out.bloom + 8 * progress,
     vignette |-> 50000 + 3 * progress,
     aberration |-> Aberration(progress, time),
     spotLight |-> LightIntensity(e.spotLight, progress, time),
     pointLight |-> LightIntensity(e.pointLight, progress, time),
     background |-> <<40000 + 2 * progress, 40000 + progress,
                      80000 - 2 * progress>>,
     fog |-> 60000 + 4 * progress,
     exposure |-> 60000 + 6 * progress]

\* the values the call sets on the scene e: bloom, vignette and exposure in
\* units of 10^-5, the background channels in 10^-6, the fog density in 10^-7
VisualEffects(e, progress, time) ==
    [bloom |-> 30000 + 8 * progress,
     vignette |-> 50000 + 3 * progress,
     aberration |-> Aberration(progress, time),
     spotLight |-> LightIntensity(e.spotLight, progress, time),
     pointLight |-> LightIntensity(e.pointLight, progress, time),
     background |-> <<40000 + 2 * progress, 40000 + progress,
                      80000 - 2 * progress>>,
     fog |-> 60000 + 4 * progress,
     exposure |-> 60000 + 6 * progress]

\* the arguments of a call and the performance.now() it reads, in ms
EffectInputs ==
    [progress : {0, 3 * (Unit \div 10), Unit},
     now : {250, 1000, 2600},
     deltaTime : {16, 50}]

\* setupLighting() and setupPostProcessing(): the point light with its two
\* random numbers, the spotlight, the effects as constructed
EffectsInit ==
    /\ Constructed
    /\ letters = LettersIdle
    /\ proximity = ProximityIdle
    /\ audio = AudioIdle
    /\ easing = EasingIdle
    /\ damping = DampingIdle
    /\ motion = MotionIdle
    /\ decoder = DecoderIdle
    /\ \E r1 \in RandomDraws, r2 \in RandomDraws :
          effects =
            [pointLight |-> [baseIntensity |-> (Unit + r1) \div 2,
                             phase |-> 15708,
                             speed |-> (Unit + r2) \div 2,
                             isSpotlight |-> FALSE],
             spotLight |-> [baseIntensity |-> 2 * Unit, phase |-> 0,
                            speed |-> 3 * (Unit \div 10),
                            isSpotlight |-> TRUE],
             lightY |-> 15 * Unit,
             rotation |-> 0,
             calls |-> 0,
             input |-> [progress |-> 0, now |-> 0, deltaTime |-> 0],
             out |-> [bloom |-> 50000, vignette |-> 60000,
                      aberration |-> 100000, spotLight |-> 0,
                      pointLight |-> 0, background |-> <<39216, 39216, 82353>>,
                      fog |-> 80000, exposure |-> 80000],
             first |-> [input |-> [progress |-> 0, now |-> 0, deltaTime |-> 0],
                        out |-> <<>>]]

\* one call of updateVisualEffects: the outputs are set, the point light is
\* moved and the dust rotated; first keeps the first call for comparison
updateVisualEffects(in) ==
    /\ effects # EffectsIdle
    /\ effects.calls < MaxEffectCalls
    /\ in.now >= effects.input.now
    /\ LET time == Seconds(in.now)
           out == VisualEffects(effects, in.progress, time)
           light == effects.pointLight
       IN  effects' =
             [effects EXCEPT
                !.calls = @ + 1,
                !.input = in,
                !.out = out,
                !.lightY = @ + FMul(Sin(FMul(time, 2 * light.speed)
                                         + light.phase), Unit \div 10),
                !.rotation = @ + Seconds(in.deltaTime),
                !.first = IF effects.calls = 0
                          THEN [input |-> in, out |-> out] ELSE @]
    /\ UNCHANGED <<sceneVars, easing, damping, motion, decoder,
                 letters, proximity, audio>>

EffectsNext == \E in \in EffectInputs : updateVisualEffects(in)

EffectsSpec == EffectsInit /\ [][EffectsNext]_vars

\* --------------------------------------------------------- loadLetters

\* the most entries lettersData has
MaxLetters == 3

\* loadLetters(scene, lettersData, onProgress) up to its await: one load
\* queued per entry, nothing loaded; onProgress is a callback or null
LettersInit ==
    /\ Constructed
    /\ easing = EasingIdle
    /\ damping = DampingIdle
    /\ motion = MotionIdle
    /\ decoder = DecoderIdle
    /\ effects = EffectsIdle
    /\ proximity = ProximityIdle
    /\ audio = AudioIdle
    /\ \E totalCount \in 0..MaxLetters, hasProgress \in BOOLEAN :
          letters = [totalCount |-> totalCount,
                     onProgress |-> hasProgress,
                     loadPromises |-> [k \in 1..totalCount |-> "pending"],
                     sceneModels |-> <<>>,
                     letterObjects |-> <<>>,
                     loadedCount |-> 0,
                     reported |-> <<>>,
                     state |-> "awaiting",
                     returned |-> <<>>]

\* loadedCount++; if (onProgress) onProgress(loadedCount, totalCount)
Counted(l) ==
    [l EXCEPT !.loadedCount = @ + 1,
              !.reported = IF l.onProgress THEN Append(@, l.loadedCount + 1)
                           ELSE @]

\* the loader's success callback for entry k: the model goes into the scene
\* and the list, is counted, and the entry's promise is fulfilled
modelLoaded(k) ==
    /\ letters # LettersIdle
    /\ letters.loadPromises[k] = "pending"
    /\ letters' = [Counted(letters) EXCEPT
                      !.sceneModels = Append(@, k),
                      !.letterObjects = Append(@, k),
                      !.loadPromises[k] = "fulfilled"]
    /\ UNCHANGED <<sceneVars, easing, damping, motion, decoder, effects,
                   proximity, audio>>

\* the loader's error callback for entry k: counted, the promise rejected
modelFailed(k) ==
    /\ letters # LettersIdle
    /\ letters.loadPromises[k] = "pending"
    /\ letters' = [Counted(letters) EXCEPT !.loadPromises[k] = "rejected"]
    /\ UNCHANGED <<sceneVars, easing, damping, motion, decoder, effects,
                   proximity, audio>>

\* fault: Promise.all, which rejects with the first rejection
Settled_All(promises) ==
    IF \E k \in DOMAIN promises : promises[k] = "rejected" THEN "rejected"
    ELSE IF \E k \in DOMAIN promises : promises[k] = "pending" THEN "pending"
    ELSE "fulfilled"

\* Promise.allSettled(loadPromises): fulfilled once no promise is pending
Settled(promises) ==
    IF \E k \in DOMAIN promises : promises[k] = "pending" THEN "pending"
    ELSE "fulfilled"

\* the await is over: the function returns letterObjects, or rejects when
\* the awaited promise rejected
loadLettersReturns ==
    /\ letters # LettersIdle
    /\ letters.state = "awaiting"
    /\ Settled(letters.loadPromises) # "pending"
    /\ letters' =
          IF Settled(letters.loadPromises) = "fulfilled"
          THEN [letters EXCEPT !.state = "resolved",
                               !.returned = letters.letterObjects]
          ELSE [letters EXCEPT !.state = "rejected"]
    /\ UNCHANGED <<sceneVars, easing, damping, motion, decoder, effects,
                   proximity, audio>>

LettersNext ==
    \/ \E k \in 1..MaxLetters :
          /\ letters # LettersIdle
          /\ k <= letters.totalCount
          /\ modelLoaded(k) \/ modelFailed(k)
    \/ loadLettersReturns

LettersSpec == LettersInit /\ [][LettersNext]_vars

\* ---------------------------------------------------- ProximityManager

\* INTERACTION.PROXIMITY_THRESHOLD and INTERACTION.CHECK_RADIUS
ProximityThreshold == 5

CheckRadius == 15

\* the most update() calls followed
MaxUpdates == 4

\* the letters, by id, each at its place on a line
LetterPositions == <<0, 6, 40>>

\* the places the camera is moved to between two updates: on a letter, as
\* near to the first letter as to the second, nearer to the second, near
\* the second or the third but not within the threshold, out of the radius
CameraPositions == {0, 3, 4, 12, 38, 44, 60}

\* let closestDistSq = Infinity
Infinity == 1000000

\* camera.position.distanceToSquared(letter.position)
DistanceToSquared(a, b) == (a - b) * (a - b)

RECURSIVE Closest(_, _, _, _)
\* the forEach over the letters from the k-th on: a letter beyond the check
\* radius is skipped, one strictly nearer than the closest so far replaces it
Closest(cam, k, closestLetter, closestDistSq) ==
    IF k > Len(LetterPositions)
    THEN [letter |-> closestLetter, distSq |-> closestDistSq]
    ELSE LET distSq == DistanceToSquared(cam, LetterPositions[k])
         IN  IF distSq > CheckRadius * CheckRadius
             THEN Closest(cam, k + 1, closestLetter, closestDistSq)
             ELSE IF distSq < closestDistSq
             THEN Closest(cam, k + 1, k, distSq)
             ELSE Closest(cam, k + 1, closestLetter, closestDistSq)

\* new ProximityManager(camera, letters): no active letter (0 is null);
\* calls is the history of activateLetter and deactivateLetter calls
ProximityInit ==
    /\ Constructed
    /\ easing = EasingIdle
    /\ damping = DampingIdle
    /\ motion = MotionIdle
    /\ decoder = DecoderIdle
    /\ effects = EffectsIdle
    /\ letters = LettersIdle
    /\ audio = AudioIdle
    /\ proximity = [camera |-> 60, activeLetter |-> 0, calls |-> <<>>,
                    updates |-> 0, returned |-> 0, before |-> 0,
                    closest |-> 0]

\* fault: the letter left behind is not deactivated
Entered_NoDeactivate(p, closestLetter) ==
    [p EXCEPT !.calls = Append(@, [op |-> "activate", letter |-> closestLetter]),
              !.activeLetter = closestLetter,
              !.returned = closestLetter]

\* the closest letter is within the threshold and is not the active one:
\* the active one, if any, is deactivated, the closest becomes the active
\* letter and is activated, and its id is returned
Entered(p, closestLetter) ==
    LET left == IF p.activeLetter # 0
                THEN Append(p.calls, [op |-> "deactivate",
                                      letter |-> p.activeLetter])
                ELSE p.calls
    IN  [p EXCEPT !.calls = Append(left, [op |-> "activate",
                                          letter |-> closestLetter]),
                  !.activeLetter = closestLetter,
                  !.returned = closestLetter]

\* no letter is within the threshold and one is active: it is deactivated,
\* activeLetter becomes null and null is returned
Left(p) ==
    [p EXCEPT !.calls = Append(@, [op |-> "deactivate",
                                   letter |-> p.activeLetter]),
              !.activeLetter = 0,
              !.returned = 0]

\* update() with the camera at cam; before and closest keep the active
\* letter the call found and the closest letter it computed
update(cam) ==
    /\ proximity # ProximityIdle
    /\ proximity.updates < MaxUpdates
    /\ LET c == Closest(cam, 1, 0, Infinity)
           p == [proximity EXCEPT !.camera = cam, !.updates = @ + 1,
                                  !.before = proximity.activeLetter,
                                  !.closest = c.letter]
       IN  proximity' =
             IF c.distSq < ProximityThreshold * ProximityThreshold
             THEN IF p.activeLetter # c.letter
                  THEN Entered(p, c.letter)
                  ELSE [p EXCEPT !.returned = p.activeLetter]
             ELSE IF p.activeLetter # 0
                  THEN Left(p)
                  ELSE [p EXCEPT !.returned = p.activeLetter]
    /\ UNCHANGED <<sceneVars, easing, damping, motion, decoder, effects,
                   letters, audio>>

ProximityNext == \E cam \in CameraPositions : update(cam)

ProximitySpec == ProximityInit /\ [][ProximityNext]_vars

\* ---------------------------------------------------------- AudioEngine

\* the letters the engine is asked to narrate; the last has no URL registered
NarrationIds == {1, 2, 3}

RegisteredIds == {1, 2}

\* new AudioEngine() after registerNarration for the registered letters: no
\* theme, no current narration (0 is null), no Howl made; sound is the state
\* of each narration's Howl, resumed what the last step restarted
AudioInit ==
    /\ Constructed
    /\ easing = EasingIdle
    /\ damping = DampingIdle
    /\ motion = MotionIdle
    /\ decoder = DecoderIdle
    /\ effects = EffectsIdle
    /\ letters = LettersIdle
    /\ proximity = ProximityIdle
    /\ audio = [backgroundTheme |-> "null",
                themeVolume |-> "THEME_VOLUME",
                currentNarration |-> 0,
                narrations |-> {},
                sound |-> [id \in NarrationIds |-> "unplayed"],
                resumed |-> [id |-> 0, from |-> "none"]]

\* nothing was restarted by this step
NotResumed == [id |-> 0, from |-> "none"]

\* Howl.stop() on the current narration, if there is one
CurrentStopped(a) ==
    IF a.currentNarration # 0
    THEN [a EXCEPT !.sound[a.currentNarration] = "stopped"]
    ELSE a

\* backgroundTheme.fade(volume, to, FADE_DURATION) under its condition
Faded(a, condition, to) ==
    IF condition THEN [a EXCEPT !.themeVolume = to] ELSE a

\* playBackgroundTheme(url): a theme playing is stopped, a new one is made
\* at full volume and played
playBackgroundTheme ==
    /\ audio # AudioIdle
    /\ audio' = [audio EXCEPT !.backgroundTheme = "playing",
                              !.themeVolume = "THEME_VOLUME",
                              !.resumed = NotResumed]
    /\ UNCHANGED <<sceneVars, easing, damping, motion, decoder, effects,
                   letters, proximity>>

\* playNarration(letterId): the current narration is stopped; a registered
\* narration is loaded on first use; without a Howl the call returns here,
\* else the theme is ducked, the narration played and made current
playNarration(letterId) ==
    /\ audio # AudioIdle
    /\ LET stopped == CurrentStopped(audio)
           loaded == IF letterId \notin audio.narrations
                        /\ letterId \in RegisteredIds
                     THEN audio.narrations \cup {letterId}
                     ELSE audio.narrations
           ducked == Faded(stopped, audio.backgroundTheme = "playing",
                           "DUCKING_VOLUME")
       IN  audio' =
             IF letterId \notin loaded
             THEN [stopped EXCEPT !.resumed = NotResumed]
             ELSE [ducked EXCEPT !.narrations = loaded,
                                 !.sound[letterId] = "playing",
                                 !.currentNarration = letterId,
                                 !.resumed = NotResumed]
    /\ UNCHANGED <<sceneVars, easing, damping, motion, decoder, effects,
                   letters, proximity>>

\* a narration plays to its end: onend restores the theme volume
narrationEnds(letterId) ==
    /\ audio # AudioIdle
    /\ audio.sound[letterId] = "playing"
    /\ audio' = [Faded(audio, audio.backgroundTheme # "null", "THEME_VOLUME")
                    EXCEPT !.sound[letterId] = "ended",
                           !.resumed = NotResumed]
    /\ UNCHANGED <<sceneVars, easing, damping, motion, decoder, effects,
                   letters, proximity>>

\* stopNarration(): a current narration is stopped and forgotten; the theme
\* volume is restored
stopNarration ==
    /\ audio # AudioIdle
    /\ audio' = [Faded(CurrentStopped(audio),
                       audio.backgroundTheme = "playing", "THEME_VOLUME")
                    EXCEPT !.currentNarration = 0,
                           !.resumed = NotResumed]
    /\ UNCHANGED <<sceneVars, easing, damping, motion, decoder, effects,
                   letters, proximity>>

\* pause(): the theme and the current narration are paused if playing
pause ==
    /\ audio # AudioIdle
    /\ LET current == audio.currentNarration
       IN  audio' =
             [audio EXCEPT
                !.backgroundTheme = IF @ = "playing" THEN "paused" ELSE @,
                !.sound = IF current # 0 /\ @[current] = "playing"
                          THEN [@ EXCEPT ![current] = "paused"] ELSE @,
                !.resumed = NotResumed]
    /\ UNCHANGED <<sceneVars, easing, damping, motion, decoder, effects,
                   letters, proximity>>

\* if (this.currentNarration && !this.currentNarration.playing())
Resumes(a) ==
    a.currentNarration # 0 /\ a.sound[a.currentNarration] # "playing"

\* resume(): the theme and the current narration are played if not playing
resume ==
    /\ audio # AudioIdle
    /\ LET current == audio.currentNarration
       IN  audio' =
             [audio EXCEPT
                !.backgroundTheme = IF @ # "null" THEN "playing" ELSE @,
                !.sound = IF Resumes(audio)
                          THEN [@ EXCEPT ![current] = "playing"] ELSE @,
                !.resumed = IF Resumes(audio)
                            THEN [id |-> current,
                                  from |-> audio.sound[current]]
                            ELSE NotResumed]
    /\ UNCHANGED <<sceneVars, easing, damping, motion, decoder, effects,
                   letters, proximity>>

AudioNext ==
    \/ playBackgroundTheme
    \/ \E letterId \in NarrationIds : playNarration(letterId)
    \/ \E letterId \in NarrationIds : narrationEnds(letterId)
    \/ stopNarration
    \/ pause
    \/ resume

AudioSpec == AudioInit /\ [][AudioNext]_vars

\* ------------------------------------------------------------ properties

\* the requests that have settled
SettledAssets == {a \in Assets : requests[a] > 0 /\ a \notin inflight}

\* every variable of the program that skipTransition() could touch
skipVars == <<loadVars, scene, camera, loadedAssets, transitionVars, lastTime,
              onComplete, frameVars, isDisposed, startCalls, completions,
              completedBy, uncaught>>

\* C1: startCameraTransition() has been invoked exactly once when loadedAssets
\* has reached totalAssets and never before, on every interleaving and every
\* outcome of the six loads; so the spline is built exactly once, at the
\* settlement that completes the count.
C1_StartedExactlyOnce ==
    /\ splineBuilds = (IF loadedAssets = totalAssets THEN 1 ELSE 0)
    /\ (cameraSpline = "curve") <=> (splineBuilds = 1)

C1_Witness ==
    /\ splineBuilds = 1
    /\ primaryOutcome = "parseError"
    /\ "roof" \in scene.meshes
    /\ "corridor" \notin scene.meshes
    /\ completedBy = "tick"

\* C2: loadedAssets always equals the number of settled loads (each load is
\* counted exactly once, whatever its outcome, also when its callback throws),
\* never exceeds totalAssets and never decreases.
C2_EachLoadCountedOnce ==
    /\ [](loadedAssets = Cardinality(SettledAssets) /\ loadedAssets <= totalAssets)
    /\ [][loadedAssets' >= loadedAssets]_vars

C2_Witness ==
    /\ isDisposed
    /\ lastOp.name = "load"
    /\ primaryOutcome = "success"
    /\ loadedAssets = 1
    /\ inflight = Dependents

\* C3: a dependent load is requested only once the primary load has settled
\* and been counted, whatever the primary's outcome, and then exactly once.
C3_PrimaryBarrier ==
    \A d \in Dependents :
        /\ requests[d] = (IF primaryOutcome = "none" THEN 0 ELSE 1)
        /\ (requests[d] > 0 => Primary \notin inflight /\ loadedAssets >= 1)
        /\ (d \in inflight => requests[d] = 1)

C3_Witness ==
    /\ primaryOutcome = "fetchError"
    /\ inflight = Dependents
    /\ loadedAssets = 1

\* C4: if every requested load eventually settles, loadedAssets eventually
\* reaches totalAssets with the camera transition active, whatever the
\* outcomes of the loads.
C4_PipelineCompletes == <>(loadedAssets = totalAssets /\ cameraTransition.active)

C4_Witness ==
    /\ loadedAssets = totalAssets
    /\ cameraTransition.active
    /\ primaryOutcome = "fetchError"
    /\ scene.meshes = Dependents

\* C5: while loadedAssets < totalAssets the transition is not active, and no
\* start(), frame, skipTransition() or resize step turns it active.
C5_IdleUntilPipelineCompletes ==
    /\ [](loadedAssets < totalAssets => ~cameraTransition.active)
    /\ [][(start \/ frame \/ skipTransition \/ onWindowResize)
             => (cameraTransition'.active => cameraTransition.active)]_vars

C5_Witness ==
    /\ loadedAssets = totalAssets - 1
    /\ lastOp = AnimateOp("animate", TRUE, FALSE, TRUE)
    /\ ~cameraTransition.active
    /\ now > 0

\* C6: the completion callback is invoked at most once, and a transition that
\* has been started and is no longer active never becomes active again.
C6_CompletesAtMostOnce ==
    /\ [](completions <= 1)
    /\ [][(splineBuilds > 0 /\ ~cameraTransition.active)
             => ~cameraTransition'.active]_vars

C6_Witness ==
    /\ completions = 1
    /\ completedBy = "tick"
    /\ lastOp.name = "skipTransition"
    /\ pendingFrames > 0

C8_SkipWhileIdle ==
    /\ [][(loadedAssets < totalAssets /\ skipTransition) => UNCHANGED skipVars]_vars
    /\ ((loadedAssets < totalAssets /\ lastOp.name = "skipTransition")
            ~> cameraTransition.active)

C8_Witness ==
    /\ lastOp.name = "skipTransition"
    /\ loadedAssets = 3
    /\ onComplete = "callback"
    /\ ~cameraTransition.active

\* C9: once disposed, animate() (from a pending frame or from a new start())
\* schedules no frame, runs no camera tick, renders nothing and invokes no
\* callback.
C9_NoTickAfterDispose ==
    [][(isDisposed /\ (frame \/ start))
          => /\ ~lastOp'.scheduled
             /\ ~lastOp'.ticked
             /\ ~lastOp'.rendered
             /\ pendingFrames' <= pendingFrames
             /\ UNCHANGED <<cameraTransition, lastTime, completions,
                            completedBy, scene, camera>>]_vars

C9_Witness ==
    /\ isDisposed
    /\ isActive
    /\ lastOp = AnimateOp("start", FALSE, FALSE, FALSE)

\* C10: once disposed with the camera transition not yet started, the
\* transition is never started or active afterwards and the completion
\* callback is never invoked.
C10_NeverStartsAfterDispose ==
    [][(isDisposed /\ splineBuilds = 0 /\ ~cameraTransition.active)
          => /\ splineBuilds' = 0
             /\ ~cameraTransition'.active
             /\ completions' = completions]_vars

\* C11: dispose() during the Active phase stops the sequence cleanly, also
\* when the completion callback calls it during the completing tick: no
\* frame or start() step lets a TypeError on the released scene, camera or
\* renderer escape, and no camera tick ends with the camera released.
C11_DisposeStopsCleanly ==
    [][(frame \/ start)
          => /\ uncaught' = uncaught
             /\ ~(lastOp'.ticked /\ camera' = "null")]_vars

\* C12: a load or texture callback that arrives after dispose() lets no
\* error escape and adds no mesh to the scene.
C12_LoadsAbandonedSafely ==
    [][(isDisposed /\ (loadSettles \/ textureSettled))
          => /\ uncaught' = uncaught
             /\ scene'.meshes = scene.meshes]_vars

\* C13: every mesh in the scene was offset by the one origin buildingCenter,
\* which is the building's bounding-box centre when the building loaded and
\* decoded and (0,0,0) when it failed; buildingCenter is written only while
\* no dependent load has been requested.
C13_CommonOrigin ==
    /\ [](\A a \in scene.meshes : scene.origin[a] = buildingCenter)
    /\ [](buildingCenter =
             (IF primaryOutcome = "success" THEN "bboxCenter" ELSE "zero"))
    /\ [][buildingCenter' # buildingCenter
             => \A d \in Dependents : requests[d] = 0]_vars

C13_Witness ==
    /\ primaryOutcome = "success"
    /\ scene.meshes = Assets
    /\ \A a \in Assets : scene.origin[a] = "bboxCenter"

\* clamp(x, lo, hi)
Clamp(x, lo, hi) == IF x < lo THEN lo ELSE IF x > hi THEN hi ELSE x

\* C14: a camera tick that runs to its end stores rawProgress =
\* clamp(elapsed / duration, 0, 1) with elapsed = now - startTime; the stored
\* progress is always within [0, 1] and no step (tick, skip or any other)
\* decreases it.
C14_ProgressClampedMonotone ==
    /\ [](cameraTransition.progress \in 0..Duration)
    /\ [][cameraTransition'.progress >= cameraTransition.progress]_vars
    /\ [][((frame \/ start) /\ lastOp'.ticked /\ lastOp'.rendered)
             => cameraTransition'.progress =
                    Clamp(now - cameraTransition.startTime, 0, Duration)]_vars

C14_Witness ==
    /\ lastOp = AnimateOp("animate", TRUE, TRUE, TRUE)
    /\ cameraTransition.startTime = ClockStep
    /\ cameraTransition.progress = 2 * ClockStep
    /\ cameraTransition.active

\* x lies in the closed interval [lo, hi]
RWithin(x, lo, hi) == RLeq(lo, x) /\ RLeq(x, hi)

\* x lies in the open interval (lo, hi)
RInside(x, lo, hi) == RLess(lo, x) /\ RLess(x, hi)

\* C15: variableSpeedEase takes 0 to 0, 0.2 to 0.15, 0.8 to 0.85 and 1 to 1,
\* is non-decreasing on [0, 1] (for t <= u its value at t is at most its
\* value at u, also across the breakpoints), and maps [0, 0.2] into
\* [0, 0.15], (0.2, 0.8) into (0.15, 0.85) and [0.8, 1] into [0.85, 1].
C15_EaseShape ==
    easing.value # <<>> =>
        /\ RLeq(easing.value[1], easing.value[2])
        /\ \A k \in 1..2 :
              LET t == easing.t[k]
                  v == easing.value[k]
              IN  /\ t = Rat(0, 1) => v = Rat(0, 1)
                  /\ t = Rat(2, 10) => v = Rat(15, 100)
                  /\ t = Rat(8, 10) => v = Rat(85, 100)
                  /\ t = Rat(1, 1) => v = Rat(1, 1)
                  /\ RWithin(t, Rat(0, 1), Rat(2, 10))
                        => RWithin(v, Rat(0, 1), Rat(15, 100))
                  /\ RInside(t, Rat(2, 10), Rat(8, 10))
                        => RInside(v, Rat(15, 100), Rat(85, 100))
                  /\ RWithin(t, Rat(8, 10), Rat(1, 1))
                        => RWithin(v, Rat(85, 100), Rat(1, 1))

C15_Witness ==
    /\ easing.t = <<Rat(2, 10), Rat(8, 10)>>
    /\ easing.value = <<Rat(15, 100), Rat(85, 100)>>

\* x lies between a and b, whichever is larger
Between(a, x, b) == (a <= x /\ x <= b) \/ (b <= x /\ x <= a)

\* C16: damp(current, target, k, dt) with k, dt >= 0 lies between current and
\* target, so it never moves away from the target and never passes it (from
\* 0 toward 10 the values never decrease and never exceed 10); as calls with
\* dt > 0 accumulate, the value comes within DampEpsilon of the target and
\* stays there.
C16_DampApproaches ==
    /\ [][DampNext => Between(damping.current, damping'.current,
                              damping.target)]_vars
    /\ [][(DampNext /\ damping.current <= damping.target)
             => /\ damping'.current >= damping.current
                /\ damping'.current <= damping.target]_vars
    /\ <>[](Abs(damping.target - damping.current) <= DampEpsilon)

C16_Witness ==
    /\ damping.from = 0
    /\ damping.target = DampRange * PosUnit
    /\ damping.current > damping.from
    /\ damping.current < damping.target
    /\ damping.target - damping.current <= DampEpsilon

\* a step that runs animate()
motionAnimates == motionStart \/ motionFrame

\* C17: startCameraTransition() puts the damped position on waypoint[0], and
\* a tick at elapsed = 0 stores rawProgress 0, aims at waypoint[0], leaves
\* the camera exactly on waypoint[0] and adds no shake.
C17_StartsAtFirstWaypoint ==
    /\ [][motionActivate
             => motion'.currentPosition = cameraWaypoints[1]]_vars
    /\ [][(motionAnimates /\ motion.active /\ motion.now = motion.startTime)
             => /\ motion'.progress = 0
                /\ motion'.target = cameraWaypoints[1]
                /\ motion'.currentPosition = cameraWaypoints[1]
                /\ motion'.cameraPosition = cameraWaypoints[1]
                /\ motion'.shake = 0]_vars

C17_Witness ==
    /\ motion.ticked
    /\ motion.active
    /\ motion.startTime > 0
    /\ motion.now = motion.startTime
    /\ motion.lastTime = motion.now
    /\ motion.cameraPosition = cameraWaypoints[1]

\* C18: the tick at which elapsed >= duration stores rawProgress 1, invokes
\* the completion callback and leaves the camera within MotionEpsilon of the
\* last waypoint, whatever ticks came before it (none included).
C18_CompletesAtLastWaypoint ==
    [][(motionAnimates /\ motion.active
           /\ ReachesEnd(motion.now, motion.startTime))
          => /\ motion'.progress = Duration
             /\ motion'.completions = motion.completions + 1
             /\ Abs(motion'.cameraPosition - cameraWaypoints[2])
                   <= MotionEpsilon]_vars

RECURSIVE TrianglesDue(_)
\* one triangle for each record that is no quad, two for each quad
TrianglesDue(quads) ==
    IF quads = <<>> THEN 0
    ELSE (IF Head(quads) THEN 2 ELSE 1) + TrianglesDue(Tail(quads))

\* C19: for every faces array the decoder emits one triangle for each
\* non-quad record and two for each quad record (also for a record cut
\* short), and the position array holds 9 numbers per emitted triangle.
C19_TrianglesPerRecord ==
    decoder # DecoderIdle =>
        /\ PositionsLength(decoder) = 9 * decoder.triangles
        /\ decoder.done => decoder.triangles = TrianglesDue(decoder.quads)

C19_Witness ==
    /\ decoder # DecoderIdle
    /\ decoder.done
    /\ decoder.quads = <<TRUE, FALSE, TRUE>>
    /\ decoder.triangles = 5
    /\ PositionsLength(decoder) = 45

RECURSIVE CountSum(_)
\* the sum of the counts of a sequence of groups
CountSum(groups) ==
    IF groups = <<>> THEN 0 ELSE Head(groups).count + CountSum(Tail(groups))

\* the groups are ordered, contiguous and non-overlapping: the first starts
\* at 0, each next one where the one before it ends, and none is empty
Contiguous(groups) ==
    \A k \in 1..Len(groups) :
        /\ groups[k].count > 0
        /\ groups[k].start =
               (IF k = 1 THEN 0 ELSE groups[k - 1].start + groups[k - 1].count)

RecordLength(type) ==
    LET n == IF type % 2 = 1 THEN 4 ELSE 3
        Has(b) == IF (type \div b) % 2 = 1 THEN 1 ELSE 0
    IN  1 + n + Has(2) + n * Has(8) + Has(16) + n * Has(32) + Has(64)
          + n * Has(128)

\* C21: every pass of the loop moves the cursor forward by exactly the length
\* of the record at the cursor, so the cursor never moves backward and each
\* record is read from the offset at which the one before it ended.
C21_CursorAdvancesByRecord ==
    [][parseFace =>
          /\ decoder'.i = decoder.i + RecordLength(FaceAt(decoder.faces, decoder.i))
          /\ decoder'.i > decoder.i
          /\ \E k \in 1..Len(decoder.ends) :
                /\ decoder.i = (IF k = 1 THEN 0 ELSE decoder.ends[k - 1])
                /\ decoder'.i = decoder.ends[k]]_vars

C21_Witness ==
    /\ decoder # DecoderIdle
    /\ decoder.done
    /\ Len(decoder.faces) = 35
    /\ decoder.ends = <<5, 15, 35>>
    /\ decoder.i = 35

\* the last k entries of a sequence
LastOf(seq, k) == SubSeq(seq, Len(seq) - k + 1, Len(seq))

\* the corner slots of the two triangles of a quad, in emission order
QuadSlots == <<0, 1, 2, 0, 2, 3>>

\* C22: a quad record is emitted as the triangles (0,1,2) and (0,2,3) of its
\* corner slots, and each of the six emitted corners has the position, the
\* UV and the normal that the record gives for that same slot.
C22_QuadCornersFromSameSlot ==
    [][(parseFace /\ Bit(FaceAt(decoder.faces, decoder.i), 1)) =>
          LET d == decoder
              type == FaceAt(d.faces, d.i)
              uvAt == d.i + 5 + (IF Bit(type, 2) THEN 1 ELSE 0)
              normalAt == uvAt + (IF Bit(type, 8) THEN 4 ELSE 0)
                               + (IF Bit(type, 16) THEN 1 ELSE 0)
          IN  /\ Len(decoder'.positions) = Len(d.positions) + 6
              /\ \A j \in 1..6 :
                    LastOf(decoder'.positions, 6)[j]
                        = FaceAt(d.faces, d.i + 1 + QuadSlots[j])
              /\ IF Bit(type, 8)
                    THEN /\ Len(decoder'.uvArray) = Len(d.uvArray) + 6
                         /\ \A j \in 1..6 :
                               LastOf(decoder'.uvArray, 6)[j]
                                   = FaceUv(d.uvs, FaceAt(d.faces,
                                                          uvAt + QuadSlots[j]))
                    ELSE decoder'.uvArray = d.uvArray
              /\ IF Bit(type, 32)
                    THEN /\ Len(decoder'.normalArray) = Len(d.normalArray) + 6
                         /\ \A j \in 1..6 :
                               LastOf(decoder'.normalArray, 6)[j]
                                   = FaceNormal(d.normals,
                                                FaceAt(d.faces,
                                                       normalAt + QuadSlots[j]))
                    ELSE decoder'.normalArray = d.normalArray]_vars

\* a whole quad with uvs and normals, every index inside its pool: the six
\* corners carry the entries of the slots 0,1,2,0,2,3
C22_Witness ==
    /\ decoder # DecoderIdle
    /\ decoder.done
    /\ decoder.faces = FaceRecord(251, 1, 0)
    /\ decoder.positions = <<0, 1, 2, 0, 2, 3>>
    /\ decoder.uvArray = <<<<11, 12>>, <<13, 14>>, <<15, 16>>,
                           <<11, 12>>, <<15, 16>>, <<17, 18>>>>
    /\ decoder.normalArray[6] = <<40, 41, 42>>

\* an index is missing or outside a pool of len numbers, stride per entry
OutOfPool(index, len, stride) ==
    \/ index = Undefined
    \/ index < 0
    \/ index * stride + stride > len

\* C23: a corner whose UV index is missing, negative or too large for the
\* pool gets the UV (0,0), and a corner whose normal index is missing,
\* negative or too large gets the normal (0,1,0).
C23_DefaultsSubstituted ==
    [][parseFace =>
          LET d == decoder
              type == FaceAt(d.faces, d.i)
              n == IF Bit(type, 1) THEN 4 ELSE 3
              uvAt == d.i + 1 + n + (IF Bit(type, 2) THEN 1 ELSE 0)
              normalAt == uvAt + (IF Bit(type, 8) THEN n ELSE 0)
                               + (IF Bit(type, 16) THEN 1 ELSE 0)
              slots == IF n = 4 THEN QuadSlots ELSE <<0, 1, 2>>
          IN  /\ Bit(type, 8) =>
                    \A j \in 1..Len(slots) :
                       OutOfPool(FaceAt(d.faces, uvAt + slots[j]),
                                 Len(d.uvs), 2)
                          => LastOf(decoder'.uvArray, Len(slots))[j] = <<0, 0>>
              /\ Bit(type, 32) =>
                    \A j \in 1..Len(slots) :
                       OutOfPool(FaceAt(d.faces, normalAt + slots[j]),
                                 Len(d.normals), 3)
                          => LastOf(decoder'.normalArray, Len(slots))[j]
                                = <<0, 1, 0>>]_vars

\* C24: an onLoad whose payload lacks vertices or faces runs its try body to
\* the end (the decoder returns, the mesh is added or the texture requested),
\* counts exactly one settlement, raises nothing and leaves the other
\* requests as they were.
C24_InvalidPayloadCounted ==
    [][(\/ buildingOnLoad("invalid")
        \/ \E p \in PlainDependents : dependentOnLoad(p, "invalid")
        \/ terrainOnLoad("invalid")) =>
          /\ loadedAssets' = loadedAssets + 1
          /\ uncaught' = uncaught
          /\ \E a \in inflight :
                /\ inflight' = IF a = Primary THEN Dependents
                                              ELSE inflight \ {a}
                /\ \A d \in Assets \ {a} :
                      requests'[d] = requests[d] + (IF a = Primary THEN 1 ELSE 0)
                /\ a = Primary => primaryOutcome' = "success"
                /\ a = "terrain" => texture' = "pending"
                /\ (a # "terrain" /\ ~scene.isNull) => a \in scene'.meshes]_vars

\* the last of the six payloads lacks vertices: its mesh is in the scene and
\* its settlement starts the transition
C24_Witness ==
    /\ lastOp.name = "loadInvalid"
    /\ loadedAssets = totalAssets
    /\ cameraTransition.active
    /\ "groupcell" \in scene.meshes
    /\ inflight = {}

\* the material indices of the groups
GroupIndices(groups) == {groups[k].materialIndex : k \in 1..Len(groups)}

\* C25 as stated: the number of materials returned is the number of distinct
\* material indices of the emitted groups, and at least 1.
C25_MaterialsMatchGroups ==
    (decoder # DecoderIdle /\ decoder.done) =>
        /\ Len(decoder.materials) = Cardinality(GroupIndices(decoder.groups))
        /\ Len(decoder.materials) >= 1

\* C25: for a payload with vertices and faces the number of materials
\* returned is the number of descriptors in json.materials, and exactly one
\* (the default material) when there is no descriptor; for a payload without
\* vertices or faces no material is returned.
C25_MaterialsMatchDescriptors ==
    (decoder # DecoderIdle /\ decoder.done) =>
        IF decoder.hasVertices /\ decoder.hasFaces
        THEN /\ Len(decoder.materials) >= 1
             /\ decoder.descriptors > 0
                   => Len(decoder.materials) = decoder.descriptors
             /\ decoder.descriptors = 0
                   => /\ Len(decoder.materials) = 1
                      /\ decoder.materials[1].color = "0x888888"
        ELSE Len(decoder.materials) = 0

\* two descriptors, every face on material 0: two materials, one group
C25_Witness ==
    /\ decoder # DecoderIdle
    /\ decoder.done
    /\ decoder.descriptors = 2
    /\ Len(decoder.materials) = 2
    /\ decoder.materials[1].transparent
    /\ Len(decoder.groups) = 1
    /\ decoder.groups[1].materialIndex = 0
    /\ decoder.triangles = 3

\* C26: a call of updateVisualEffects with the progress, the wall-clock time
\* and the deltaTime of the first call sets the same bloom, vignette,
\* aberration, light intensities, background, fog and exposure as the first
\* call did, whatever calls ran in between.
C26_EffectsDependOnInputsOnly ==
    (effects # EffectsIdle /\ effects.calls > 0
        /\ effects.input = effects.first.input)
      => effects.out = effects.first.out

\* the third call repeats the first; the light has moved and the dust has
\* turned in between
C26_Witness ==
    /\ effects # EffectsIdle
    /\ effects.calls = 3
    /\ effects.input = effects.first.input
    /\ effects.input.progress = 3 * (Unit \div 10)
    /\ effects.lightY # 15 * Unit
    /\ effects.rotation = 3 * Seconds(50)
    /\ effects.out.pointLight > 0

\* C27: two calls at the same wall-clock time set the same
\* chromatic-aberration offset, whatever their progress.
C27_AberrationIgnoresProgress ==
    (effects # EffectsIdle /\ effects.calls > 0
        /\ effects.input.now = effects.first.input.now)
      => effects.out.aberration = effects.first.out.aberration

\* the same time at progress 0 and at progress 1: the bloom differs, the
\* offset does not
C27_Witness ==
    /\ effects # EffectsIdle
    /\ effects.calls = 2
    /\ effects.input.now = 1000
    /\ effects.first.input.now = 1000
    /\ effects.first.input.progress = 0
    /\ effects.input.progress = Unit
    /\ effects.out.bloom # effects.first.out.bloom
    /\ effects.out.aberration = effects.first.out.aberration
    /\ effects.out.aberration # 50000

\* C28: bloom intensity, vignette darkness, fog density and exposure are a
\* base plus the progress times a positive gain, so a call with more
\* progress than the first sets none of them lower; the spotlight intensity
\* is the progress times a pulse in [0,1] times its base 2, so it is 0 when
\* the progress is 0.
C28_EffectsGrowWithProgress ==
    (effects # EffectsIdle /\ effects.calls > 0) =>
        LET p == effects.input.progress
            more == p - effects.first.input.progress
            rise(k) == effects.out[k] - effects.first.out[k]
        IN  /\ \A k \in {"bloom", "vignette", "fog", "exposure"} :
                  /\ more >= 0 => rise(k) >= 0
                  /\ \E gain \in 1..10 : rise(k) = gain * more
            /\ rise("bloom") = 8 * more /\ rise("vignette") = 3 * more
            /\ rise("fog") = 4 * more /\ rise("exposure") = 6 * more
            /\ effects.out.spotLight >= 0
            /\ effects.out.spotLight <= 2 * p
            /\ p = 0 => effects.out.spotLight = 0

\* progress 0 after progress 1 at a time when the pulses are up: the
\* spotlight is dark, the point light is not
C28_Witness ==
    /\ effects # EffectsIdle
    /\ effects.calls = 2
    /\ effects.first.input.progress = Unit
    /\ effects.first.out.spotLight > Unit \div 2
    /\ effects.first.out.exposure = 120000
    /\ effects.input.progress = 0
    /\ effects.out.spotLight = 0
    /\ effects.out.pointLight > 0
    /\ effects.out.exposure = 60000

\* C29: on every tick of the active transition the progress handed to
\* updateVisualEffects is the eased progress at which the curve was sampled
\* on that tick.
C29_EffectsFromAppliedProgress ==
    [][(motionAnimates /\ motion.active /\ motion.started)
          => motion'.effectsProgress = motion'.speedCurve]_vars

\* the part of the camera position that is shake, for rawProgress
\* progress / Duration and the factor 1 / quarter: at most
\* (rawProgress - 0.7) / quarter, to within the rounding of a coordinate
ShakeBound(progress, quarter) ==
    IF 10 * progress <= 7 * Duration THEN 0
    ELSE RoundDiv(PosUnit * ((10 * progress - 7 * Duration) \div 10),
                  quarter * Duration) + 1

\* C30: after every tick the camera is off the damped position by at most
\* 0.25 x (rawProgress - 0.7) in x and 0.125 x (rawProgress - 0.7) in y, by
\* nothing in z and by nothing at all up to rawProgress 0.7; the damped
\* position is the damp() of the one before and takes no shake.
C30_ShakeBoundedAndTransient ==
    [][(motionAnimates /\ motion.active /\ motion.started) =>
          /\ motion'.cameraPosition - motion'.currentPosition = motion'.shake
          /\ Abs(motion'.shake) <= ShakeBound(motion'.progress, 4)
          /\ Abs(motion'.shakeY) <= ShakeBound(motion'.progress, 8)
          /\ motion'.shakeZ = 0
          /\ motion'.currentPosition =
                damp(motion.currentPosition, motion'.target,
                     25 * (Unit \div 10),
                     DeltaTime(motion.now, motion.lastTime))]_vars

\* a tick at rawProgress 13/18 with the lowest random numbers: the camera is
\* off the damped position in x and in y
C30_Witness ==
    /\ motion # MotionIdle
    /\ motion.ticked
    /\ motion.active
    /\ motion.progress = 13000
    /\ motion.shake < 0
    /\ motion.shakeY < 0
    /\ motion.cameraPosition < motion.currentPosition

\* C31: at most one frame callback of the instance is pending at any time,
\* for any sequence of start() calls, so no frame runs a second tick or a
\* second render pass.
C31_OneFramePending == pendingFrames <= 1

\* the transition was started early enough for the clock followed here to
\* reach its end
EndInReach ==
    cameraTransition.startTime + Duration <= MaxClockSteps * ClockStep

\* C32: once the transition has been started and start(onComplete) has been
\* called, in either order, the callback is eventually invoked (unless the
\* scene is disposed first), also when skipTransition() ran before start().
C32_CallbackEventuallyInvoked ==
    (splineBuilds = 1 /\ startCalls > 0 /\ EndInReach)
        ~> (completions > 0 \/ isDisposed)

\* C33: whenever a step invokes the completion callback, the callback finds
\* the transition terminal: getProgress() returns 1, so isComplete() is true.
C33_TerminalAtCallback ==
    [][completions' = completions + 1 => lastOp'.seen = Duration]_vars

\* C34: at the step that starts the camera transition the scene, unless it
\* was disposed, holds the mesh of the building if it decoded and the mesh of
\* the terrain if it decoded (its texture was requested).
C34_MeshesPresentAtStart ==
    [][(splineBuilds' = splineBuilds + 1 /\ ~scene'.isNull) =>
          /\ primaryOutcome' = "success" => Primary \in scene'.meshes
          /\ texture' # "none" => "terrain" \in scene'.meshes]_vars

\* C35: a UV array or normal array that is emitted holds one entry for each
\* emitted triangle corner, as the position array does, also when only some
\* records carry per-vertex UVs or normals.
C35_AttributesAligned ==
    (decoder # DecoderIdle /\ decoder.done) =>
        /\ Len(decoder.uvArray) > 0
              => Len(decoder.uvArray) = Len(decoder.positions)
        /\ Len(decoder.normalArray) > 0
              => Len(decoder.normalArray) = Len(decoder.positions)

\* C36: every group returned carries a material index that is an index into
\* the materials returned with it, and two consecutive groups carry different
\* material indices.
C36_GroupIndicesValid ==
    (decoder # DecoderIdle /\ decoder.done) =>
        /\ \A k \in 1..Len(decoder.groups) :
              /\ decoder.groups[k].materialIndex >= 0
              /\ decoder.groups[k].materialIndex < Len(decoder.materials)
        /\ \A k \in 1..(Len(decoder.groups) - 1) :
              decoder.groups[k].materialIndex
                  # decoder.groups[k + 1].materialIndex

\* C37: the scan ends for every face array, cut short or not: a pass is made
\* only while the cursor is below the end of the array, every pass moves the
\* cursor forward by at least 4 entries, and once the cursor is at or past
\* the end the only step left is the one that finishes the call.
C37_LoopTerminates ==
    [][/\ parseFace =>
             /\ decoder.i < Len(decoder.faces)
             /\ decoder'.i >= decoder.i + 4
       /\ (decoder # DecoderIdle /\ ~decoder.done /\ ~Invalid(decoder)
              /\ decoder.i >= Len(decoder.faces)) => decoder'.done]_vars

\* a call finished on an array whose last record is cut short: the cursor
\* ran past the end
C37_Witness ==
    /\ decoder # DecoderIdle
    /\ decoder.done
    /\ decoder.triangles = 3
    /\ decoder.i = Len(decoder.faces) + 2

\* the entries of a list, and how often k occurs in it
Range(list) == {list[j] : j \in DOMAIN list}

Occurrences(list, k) == Cardinality({j \in DOMAIN list : list[j] = k})

\* C38: loadLetters never rejects; it resolves only when every load has
\* settled; what it returns is exactly the models that loaded, each once, and
\* each of them is in the scene exactly once and nothing else is; onProgress
\* has been called with 1, 2, ... in this order, once per settled load, so
\* with 1..total when the function resolves.
C38_LoadLettersSettles ==
    letters # LettersIdle =>
        LET loaded == {k \in 1..letters.totalCount :
                          letters.loadPromises[k] = "fulfilled"}
            settled == {k \in 1..letters.totalCount :
                          letters.loadPromises[k] # "pending"}
        IN  /\ letters.state # "rejected"
            /\ letters.onProgress =>
                  letters.reported = [j \in 1..Cardinality(settled) |-> j]
            /\ Range(letters.sceneModels) = loaded
            /\ \A k \in loaded : Occurrences(letters.sceneModels, k) = 1
            /\ letters.state = "resolved" =>
                  /\ Cardinality(settled) = letters.totalCount
                  /\ Range(letters.returned) = loaded
                  /\ \A k \in loaded : Occurrences(letters.returned, k) = 1

\* three loads, the second failed: the function resolved with the other two
C38_Witness ==
    /\ letters # LettersIdle
    /\ letters.state = "resolved"
    /\ letters.totalCount = 3
    /\ letters.loadPromises[2] = "rejected"
    /\ letters.returned = <<3, 1>>
    /\ letters.reported = <<1, 2, 3>>

\* C39: the activateLetter and deactivateLetter calls alternate, beginning
\* with an activation; each deactivation names the letter of the activation
\* before it; the active letter is the one of the last call when that is an
\* activation and none otherwise, so at most one letter is active; update()
\* returns the active letter's id, or null; and an update that finds letter
\* A active and another letter B closest within the threshold deactivates A
\* and then activates B.
C39_OneActiveLetter ==
    proximity # ProximityIdle =>
        LET calls == proximity.calls
            n == Len(calls)
        IN  /\ \A j \in 1..n :
                  IF j % 2 = 1 THEN calls[j].op = "activate"
                  ELSE /\ calls[j].op = "deactivate"
                       /\ calls[j].letter = calls[j - 1].letter
            /\ proximity.activeLetter =
                  (IF n % 2 = 1 THEN calls[n].letter ELSE 0)
            /\ proximity.returned = proximity.activeLetter
            /\ (/\ proximity.before # 0
                /\ proximity.closest # 0
                /\ proximity.closest # proximity.before
                /\ DistanceToSquared(proximity.camera,
                                     LetterPositions[proximity.closest])
                     < ProximityThreshold * ProximityThreshold) =>
                  /\ n >= 2
                  /\ calls[n - 1] = [op |-> "deactivate",
                                     letter |-> proximity.before]
                  /\ calls[n] = [op |-> "activate",
                                 letter |-> proximity.closest]

\* the camera went from the first letter to the second: the first was
\* deactivated, then the second activated
C39_Witness ==
    /\ proximity # ProximityIdle
    /\ proximity.before = 1
    /\ proximity.activeLetter = 2
    /\ proximity.calls = <<[op |-> "activate", letter |-> 1],
                           [op |-> "deactivate", letter |-> 1],
                           [op |-> "activate", letter |-> 2]>>

\* C40: a narration that resume() starts was paused by pause() before, so
\* one that played to its end is not started again, and at no time is more
\* than one narration playing.
C40_ResumeOnlyPaused ==
    audio # AudioIdle =>
        /\ audio.resumed.id # 0 => audio.resumed.from = "paused"
        /\ Cardinality({id \in NarrationIds :
                            audio.sound[id] = "playing"}) <= 1

====
